---- MODULE Spec2Model ----
\* A model of the seeder registry (SeederManager): registration of named
\* seeder functions and their execution by name, in a given order, or all;
\* and of the command line front end (CLI) built on it.
EXTENDS Integers, Sequences, FiniteSets, TLC

\* ---------------------------------------------------------------------
\* Inputs
\* ---------------------------------------------------------------------

\* Longest batch handed to RegisterSeeders.
MaxBatch == 2

\* Longest name list handed to RunSeedersInOrder.
MaxOrder == 3

\* Seeder names the callers use; "" is the empty name, "a"/"A" differ in case.
Names == {"", "a", "A", "b"}

\* Names that differ from "a" in letter case or in leading and trailing
\* whitespace only, and a name that is nothing but whitespace.
Variants == {"a", "A", " a ", " "}

\* Names that occur in the lists handed to RunSeedersInOrder.
OrderNames == {"a", "b"}

\* Names registered one by one where the command line front end is used;
\* "all" is also the value of -type that runs every seeder.
CLINames == {"", "all", "b"}

\* Values given to the -type flag: empty, "all", names that can be
\* registered, and "x" that never is.
Selectors == {"", "all", "a", "b", "x"}

\* Application names of the CLI: the default of NewCLI, a custom one, and
\* the empty string.
AppNames == {"seeder", "myapp", ""}

\* Seeder functions (func() error values) the callers register: one that
\* returns nil and one that returns an error.
Functions == {"seedOk", "seedFail"}

\* Seeder functions of a program whose seeders register further seeders:
\* "seedAdds" calls RegisterSeeder on the manager that runs it, ignores
\* what it returns, and returns nil.
ReentrantFunctions == {"seedOk", "seedAdds"}

\* The nil value of the type func() error.
NilFunction == "nil"

\* Function values of a program that also registers nil.
NilFunctions == {"seedOk", "seedFail", NilFunction}

\* ---------------------------------------------------------------------
\* Error values
\* ---------------------------------------------------------------------

Nil == [kind |-> "nil"]

\* The marker for a call that has not returned yet.
Pending == [kind |-> "pending"]

\* The error a failing seeder function returns (errors.New(...)).
ActionError(function) == [kind |-> "ActionError", by |-> function]

\* fmt.Errorf("seeder name cannot be empty")
InvalidName == [kind |-> "InvalidName"]

\* fmt.Errorf("seeder with name '%s' already exists", name)
DuplicateName(name) == [kind |-> "DuplicateName", name |-> name]

\* fmt.Errorf("seeder with name '%s' not found", name)
NotFound(name) == [kind |-> "NotFound", name |-> name]

\* fmt.Errorf("seeder '%s' failed: %w", name, err)
ExecutionFailed(name, err) ==
    [kind |-> "ExecutionFailed", name |-> name, cause |-> err]

\* fmt.Errorf("failed to register seeder '%s': %w", seeder.Name, err)
RegisterFailed(name, err) ==
    [kind |-> "RegisterFailed", name |-> name, cause |-> err]

\* &TestError{Message: ...} of the test double; message is the pieces of
\* the string, in order.
TestError(message) == [kind |-> "TestError", message |-> message]

\* err.Error(): the pieces of the message, in order.  %w puts the message of
\* the wrapped error where it stands in the format.
RECURSIVE Message(_)
Message(err) ==
    CASE err.kind = "ActionError" -> <<err.by>>
      [] err.kind = "InvalidName" -> <<"seeder name cannot be empty">>
      [] err.kind = "DuplicateName" ->
             <<"seeder with name '", err.name, "' already exists">>
      [] err.kind = "NotFound" ->
             <<"seeder with name '", err.name, "' not found">>
      [] err.kind = "ExecutionFailed" ->
             <<"seeder '", err.name, "' failed: ">> \o Message(err.cause)
      [] err.kind = "RegisterFailed" ->
             <<"failed to register seeder '", err.name, "': ">>
                 \o Message(err.cause)
      [] err.kind = "TestError" -> err.message

\* What a seeder function returns when it is called.
Behaviour(function) ==
    IF function = "seedFail" THEN ActionError(function) ELSE Nil

\* ---------------------------------------------------------------------
\* State
\* ---------------------------------------------------------------------

VARIABLES
    seeders,       \* sm.seeders: sequence of SeederItem
    seederMap,     \* sm.seederMap: name -> function
    pc,            \* "idle", or "action" while a seeder function is executing
                   \* ("exited", "panicked": the process has terminated)
    call,          \* the call in progress, or the last one: [op, arg]
    rng,           \* the sequence the running loop ranges over
    idx,           \* position of the running loop in rng
    active,        \* seeder functions entered and not yet returned
    executionLog,  \* functions entered during the call, in order
    ret,           \* what the last call returned, Pending while it runs
    appName,       \* cli.appName
    cliCall,       \* the call of a CLI method in progress, or the last one,
                   \* when the program's last call was to the CLI
    cliRet,        \* what that call returned, Pending while it runs
    output,        \* lines the CLI methods logged during that call
    exitCode,      \* status the process reports once it has terminated
    flagSet,       \* flag.CommandLine: the names of the flags defined in the
                   \* process
    heap,          \* the arrays of names that GetRegisteredSeeders made, by
                   \* address; <<>> where no array is in use
    held,          \* the address of the array of the slice the caller keeps
                   \* from a call of GetRegisteredSeeders, 0 when it keeps none
    logged,        \* the lines the manager's methods wrote with the log
                   \* package during the call in progress, or the last one
    tsm,           \* the TestSeederManager the caller keeps beside the
                   \* manager: [seeders, seederMap, shouldError, errorMsg]
    tsmRet,        \* what the last call of a method of tsm returned
    tsmLog         \* functions entered during that call, in order

cliVars == <<appName, cliCall, cliRet, output, exitCode, flagSet>>

doubleVars == <<tsm, tsmRet, tsmLog>>

callerVars == <<heap, held, tsm, tsmRet, tsmLog>>

vars == <<seeders, seederMap, pc, call, rng, idx, active, executionLog, ret,
          appName, cliCall, cliRet, output, exitCode, flagSet, heap, held,
          logged, tsm, tsmRet, tsmLog>>

SeederItem(name, function) == [Name |-> name, Function |-> function]

\* Items that occur in the batches handed to RegisterSeeders: an empty
\* name, one name with either function, and a second name.
BatchItems ==
    {SeederItem("", "seedOk"), SeederItem("a", "seedOk"),
     SeederItem("a", "seedFail"), SeederItem("b", "seedFail")}

Batches == UNION {[1..k -> BatchItems] : k \in 0..MaxBatch}

Orders == UNION {[1..k -> OrderNames] : k \in 0..MaxOrder}

\* The batches and the name lists of the programs that use the manager
\* beside the CLI or beside the slices of names they keep: batches of two
\* items, one of them failing, and lists of at most two names.
SmallBatchItems == {SeederItem("a", "seedOk"), SeederItem("b", "seedFail")}

SmallBatches == UNION {[1..k -> SmallBatchItems] : k \in 0..MaxBatch}

ShortOrders == {names \in Orders : Len(names) <= 2}

\* Addresses of the arrays of names.
Addresses == {1, 2}

\* NewTestSeederManager
NewTestSeederManager ==
    [seeders |-> <<>>, seederMap |-> <<>>, shouldError |-> FALSE,
     errorMsg |-> ""]

\* No call of a CLI method.
NoCLICall == [op |-> "none", args |-> <<>>]

\* NewSeederManager
InitManager ==
    /\ seeders = <<>>
    /\ seederMap = <<>>
    /\ pc = "idle"
    /\ call = [op |-> "NewSeederManager", arg |-> <<>>]
    /\ rng = <<>>
    /\ idx = 0
    /\ active = <<>>
    /\ executionLog = <<>>
    /\ ret = Nil
    /\ heap = [a \in Addresses |-> <<>>]
    /\ held = 0
    /\ logged = <<>>
    /\ tsm = NewTestSeederManager
    /\ tsmRet = Nil
    /\ tsmLog = <<>>

\* A CLI with the application name app on the new manager, in a process
\* that has defined no flag yet.
InitCLI(app) ==
    /\ appName = app
    /\ cliCall = NoCLICall
    /\ cliRet = Nil
    /\ output = <<>>
    /\ exitCode = 0
    /\ flagSet = {}

\* NewSeederManager, NewCLI
Init == InitManager /\ InitCLI("seeder")

\* ---------------------------------------------------------------------
\* Registration
\* ---------------------------------------------------------------------

\* seederMap[name] = function
MapPut(m, name, function) ==
    [n \in (DOMAIN m) \cup {name} |-> IF n = name THEN function ELSE m[n]]

\* RegisterSeeder refusing a nil function.
RegisterSeederOn_NilRefused(sm, name, function) ==
    IF name = "" \/ function = NilFunction
    THEN [sm |-> sm, err |-> InvalidName]
    ELSE IF name \in DOMAIN sm.seederMap
    THEN [sm |-> sm, err |-> DuplicateName(name)]
    ELSE [sm |-> [seeders   |-> Append(sm.seeders, SeederItem(name, function)),
                  seederMap |-> MapPut(sm.seederMap, name, function)],
          err |-> Nil]

\* RegisterSeeder appending the item without storing it in the map.
RegisterSeederOn_SequenceOnly(sm, name, function) ==
    IF name = ""
    THEN [sm |-> sm, err |-> InvalidName]
    ELSE IF name \in DOMAIN sm.seederMap
    THEN [sm |-> sm, err |-> DuplicateName(name)]
    ELSE [sm |-> [seeders   |-> Append(sm.seeders, SeederItem(name, function)),
                  seederMap |-> sm.seederMap],
          err |-> Nil]

\* RegisterSeeder without the check for an existing name.
RegisterSeederOn_NoDuplicateCheck(sm, name, function) ==
    IF name = ""
    THEN [sm |-> sm, err |-> InvalidName]
    ELSE [sm |-> [seeders   |-> Append(sm.seeders, SeederItem(name, function)),
                  seederMap |-> MapPut(sm.seederMap, name, function)],
          err |-> Nil]

\* RegisterSeeder replacing the function of an existing name.
RegisterSeederOn_Upsert(sm, name, function) ==
    IF name = ""
    THEN [sm |-> sm, err |-> InvalidName]
    ELSE IF name \in DOMAIN sm.seederMap
    THEN [sm |-> [seeders   |-> [k \in 1..Len(sm.seeders) |->
                                    IF sm.seeders[k].Name = name
                                    THEN SeederItem(name, function)
                                    ELSE sm.seeders[k]],
                  seederMap |-> MapPut(sm.seederMap, name, function)],
          err |-> DuplicateName(name)]
    ELSE [sm |-> [seeders   |-> Append(sm.seeders, SeederItem(name, function)),
                  seederMap |-> MapPut(sm.seederMap, name, function)],
          err |-> Nil]

\* RegisterSeeder without the check for an empty name.
RegisterSeederOn_NoEmptyCheck(sm, name, function) ==
    IF name \in DOMAIN sm.seederMap
    THEN [sm |-> sm, err |-> DuplicateName(name)]
    ELSE [sm |-> [seeders   |-> Append(sm.seeders, SeederItem(name, function)),
                  seederMap |-> MapPut(sm.seederMap, name, function)],
          err |-> Nil]

\* RegisterSeeder storing the function in the map before the check for an
\* existing name.
RegisterSeederOn_MapBeforeCheck(sm, name, function) ==
    IF name = ""
    THEN [sm |-> sm, err |-> InvalidName]
    ELSE IF name \in DOMAIN sm.seederMap
    THEN [sm |-> [seeders   |-> sm.seeders,
                  seederMap |-> MapPut(sm.seederMap, name, function)],
          err |-> DuplicateName(name)]
    ELSE [sm |-> [seeders   |-> Append(sm.seeders, SeederItem(name, function)),
                  seederMap |-> MapPut(sm.seederMap, name, function)],
          err |-> Nil]

\* The body of RegisterSeeder on a manager value sm = [seeders, seederMap]:
\* the manager afterwards and the error returned.
RegisterSeederOn(sm, name, function) ==
    IF name = ""
    THEN [sm |-> sm, err |-> InvalidName]
    ELSE IF name \in DOMAIN sm.seederMap
    THEN [sm |-> sm, err |-> DuplicateName(name)]
    ELSE [sm |-> [seeders   |-> Append(sm.seeders, SeederItem(name, function)),
                  seederMap |-> MapPut(sm.seederMap, name, function)],
          err |-> Nil]

\* RegisterSeeders that goes on with the next item after a failure and
\* returns the last error.
RECURSIVE RegisterSeedersOn_NoStop(_, _)
RegisterSeedersOn_NoStop(sm, batch) ==
    IF batch = <<>>
    THEN [sm |-> sm, err |-> Nil]
    ELSE LET seeder == Head(batch)
             r == RegisterSeederOn(sm, seeder.Name, seeder.Function)
             rest == RegisterSeedersOn_NoStop(r.sm, Tail(batch))
         IN IF r.err # Nil /\ rest.err = Nil
            THEN [sm |-> rest.sm, err |-> RegisterFailed(seeder.Name, r.err)]
            ELSE rest

\* The loop of RegisterSeeders over the batch, from its first item.
RECURSIVE RegisterSeedersOn(_, _)
RegisterSeedersOn(sm, batch) ==
    IF batch = <<>>
    THEN [sm |-> sm, err |-> Nil]
    ELSE LET seeder == Head(batch)
             r == RegisterSeederOn(sm, seeder.Name, seeder.Function)
         IN IF r.err # Nil
            THEN [sm |-> r.sm, err |-> RegisterFailed(seeder.Name, r.err)]
            ELSE RegisterSeedersOn(r.sm, Tail(batch))

Manager == [seeders |-> seeders, seederMap |-> seederMap]

\* log.Printf("Registered seeder: %s", name)
RegisteredLine(name) == [line |-> "registered", name |-> name]

\* RegisterSeeder logging the name before it validates it.
RegisterSeederLog_BeforeChecks(sm, name) == <<RegisteredLine(name)>>

\* The lines RegisterSeeder(name, ...) logs on the manager value sm: the
\* confirmation, after both checks have passed and the item is stored.
RegisterSeederLog(sm, name) ==
    IF name = ""
    THEN <<>>
    ELSE IF name \in DOMAIN sm.seederMap
    THEN <<>>
    ELSE <<RegisteredLine(name)>>

\* The lines RegisterSeeders(batch) logs: those of its calls of
\* RegisterSeeder, up to the first one that fails.
RECURSIVE RegisterSeedersLog(_, _)
RegisterSeedersLog(sm, batch) ==
    IF batch = <<>>
    THEN <<>>
    ELSE LET r == RegisterSeederOn(sm, Head(batch).Name, Head(batch).Function)
             lines == RegisterSeederLog(sm, Head(batch).Name)
         IN IF r.err # Nil
            THEN lines
            ELSE lines \o RegisterSeedersLog(r.sm, Tail(batch))

RegisterSeeder(name, function) ==
    /\ pc = "idle"
    /\ LET r == RegisterSeederOn(Manager, name, function)
       IN /\ seeders' = r.sm.seeders
          /\ seederMap' = r.sm.seederMap
          /\ ret' = r.err
    /\ logged' = RegisterSeederLog(Manager, name)
    /\ call' = [op |-> "RegisterSeeder", arg |-> SeederItem(name, function)]
    /\ executionLog' = <<>>
    /\ UNCHANGED <<pc, rng, idx, active>>

RegisterSeeders(batch) ==
    /\ pc = "idle"
    /\ LET r == RegisterSeedersOn(Manager, batch)
       IN /\ seeders' = r.sm.seeders
          /\ seederMap' = r.sm.seederMap
          /\ ret' = r.err
    /\ logged' = RegisterSeedersLog(Manager, batch)
    /\ call' = [op |-> "RegisterSeeders", arg |-> batch]
    /\ executionLog' = <<>>
    /\ UNCHANGED <<pc, rng, idx, active>>

\* ---------------------------------------------------------------------
\* Queries
\* ---------------------------------------------------------------------

\* GetRegisteredSeeders filling the result from its end.
GetRegisteredSeeders_Reversed ==
    [k \in 1..Len(seeders) |-> seeders[Len(seeders) + 1 - k].Name]

GetRegisteredSeeders == [k \in 1..Len(seeders) |-> seeders[k].Name]

\* IsSeederRegistered looking the name up in the slice of items, where the
\* zero value of a missing item has the empty name.
IsSeederRegistered_ZeroItem(name) ==
    name = "" \/ \E k \in 1..Len(seeders) : seeders[k].Name = name

IsSeederRegistered(name) == name \in DOMAIN seederMap

\* ---------------------------------------------------------------------
\* Execution
\* ---------------------------------------------------------------------

\* The next thing a running call does: enter a seeder function (position k
\* of its loop), or return err to its caller.
Go(k, item) == [go |-> TRUE, k |-> k, item |-> item, err |-> Pending]

Done(k, err) == [go |-> FALSE, k |-> k, item |-> <<>>, err |-> err]

\* RunSeederByName remembering the functions entered last and not calling
\* them again.
RunSeederByNameAt_OncePerName(m, name, k) ==
    IF name \in DOMAIN m
    THEN IF \E j \in 1..Len(executionLog) : executionLog[j].Name = name
         THEN Done(k, Nil)
         ELSE Go(k, SeederItem(name, m[name]))
    ELSE Done(k, NotFound(name))

\* RunSeederByName looking the name up without the whitespace around it.
RunSeederByNameAt_Trimmed(m, name, k) ==
    LET trimmed == CASE name = " a " -> "a"
                     [] name = " " -> ""
                     [] OTHER -> name
    IN IF trimmed \in DOMAIN m
       THEN Go(k, SeederItem(trimmed, m[trimmed]))
       ELSE Done(k, NotFound(name))

\* RunSeederByName answering nil for a name that is not in the map.
RunSeederByNameAt_MissingIsNil(m, name, k) ==
    IF name \in DOMAIN m
    THEN Go(k, SeederItem(name, m[name]))
    ELSE Done(k, Nil)

\* RunSeederByName up to the call of the function: the map lookup.
RunSeederByNameAt(m, name, k) ==
    IF name \in DOMAIN m
    THEN Go(k, SeederItem(name, m[name]))
    ELSE Done(k, NotFound(name))

\* RunSeederByName formatting its error without the cause.
RunSeederByNameResult_DropCause(name, err) ==
    IF err # Nil THEN ExecutionFailed(name, Nil) ELSE Nil

\* RunSeederByName after the function returned err.
RunSeederByNameResult(name, err) ==
    IF err # Nil THEN ExecutionFailed(name, err) ELSE Nil

\* RunSeedersInOrder taking the names from the end of the list.
RunSeedersInOrderAt_Backwards(m, names, k) ==
    IF k > Len(names)
    THEN Done(k, Nil)
    ELSE RunSeederByNameAt(m, names[Len(names) + 1 - k], k)

\* RunSeedersInOrder refusing an empty list of names.
RunSeedersInOrderAt_EmptyRefused(m, names, k) ==
    IF names = <<>>
    THEN Done(k, NotFound(""))
    ELSE IF k > Len(names)
    THEN Done(k, Nil)
    ELSE RunSeederByNameAt(m, names[k], k)

\* RunSeedersInOrder: iteration k of "for _, name := range names".
RunSeedersInOrderAt(m, names, k) ==
    IF k > Len(names)
    THEN Done(k, Nil)
    ELSE RunSeederByNameAt(m, names[k], k)

\* RunSeedersInOrder wrapping the error of RunSeederByName once more.
RunSeedersInOrderAfter_Wrap(m, names, k, err) ==
    IF err # Nil
    THEN Done(k, ExecutionFailed(names[k], err))
    ELSE RunSeedersInOrderAt(m, names, k + 1)

\* RunSeedersInOrder trying a name again when RunSeederByName failed.
RunSeedersInOrderAfter_Retry(m, names, k, err) ==
    IF err # Nil
    THEN RunSeedersInOrderAt(m, names, k)
    ELSE RunSeedersInOrderAt(m, names, k + 1)

\* RunSeedersInOrder after RunSeederByName(names[k]) returned err.
RunSeedersInOrderAfter(m, names, k, err) ==
    IF err # Nil
    THEN Done(k, err)
    ELSE RunSeedersInOrderAt(m, names, k + 1)

\* RunAllSeeders leaving out the last registered seeder.
RunAllSeedersAt_SkipLast(items, k) ==
    IF k >= Len(items)
    THEN Done(k, Nil)
    ELSE Go(k, items[k])

\* RunAllSeeders: iteration k of "for _, seeder := range sm.seeders", items
\* being the slice the range statement evaluated when the loop began.
RunAllSeedersAt(items, k) ==
    IF k > Len(items)
    THEN Done(k, Nil)
    ELSE Go(k, items[k])

\* RunAllSeeders going on with the next seeder after a failure.
RunAllSeedersAfter_Continue(items, k, err) ==
    IF err # Nil /\ k = Len(items)
    THEN Done(k, ExecutionFailed(items[k].Name, err))
    ELSE RunAllSeedersAt(items, k + 1)

\* RunAllSeeders returning the error of the function as it is.
RunAllSeedersAfter_Unwrapped(items, k, err) ==
    IF err # Nil
    THEN Done(k, err)
    ELSE RunAllSeedersAt(items, k + 1)

\* RunAllSeeders calling the function of a seeder again when it failed.
RunAllSeedersAfter_Retry(items, k, err) ==
    IF err # Nil
    THEN RunAllSeedersAt(items, k)
    ELSE RunAllSeedersAt(items, k + 1)

\* RunAllSeeders after seeder.Function() of items[k] returned err.
RunAllSeedersAfter(items, k, err) ==
    IF err # Nil
    THEN Done(k, ExecutionFailed(items[k].Name, err))
    ELSE RunAllSeedersAt(items, k + 1)

\* A whole call of RunSeedersInOrder(names), followed from the decision d
\* to its return: the items whose functions it enters, in order, and the
\* error it returns.
RECURSIVE RunSeedersInOrderFrom(_, _, _, _)
RunSeedersInOrderFrom(m, names, d, log) ==
    IF d.go
    THEN RunSeedersInOrderFrom(m, names,
             RunSeedersInOrderAfter(m, names, d.k,
                 RunSeederByNameResult(names[d.k], Behaviour(d.item.Function))),
             Append(log, d.item))
    ELSE [log |-> log, ret |-> d.err]

RunSeedersInOrderOutcome(m, names) ==
    RunSeedersInOrderFrom(m, names, RunSeedersInOrderAt(m, names, 1), <<>>)

\* A whole call of RunAllSeeders over items, in the same way.
RECURSIVE RunAllSeedersFrom(_, _, _)
RunAllSeedersFrom(items, d, log) ==
    IF d.go
    THEN RunAllSeedersFrom(items,
             RunAllSeedersAfter(items, d.k, Behaviour(d.item.Function)),
             Append(log, d.item))
    ELSE [log |-> log, ret |-> d.err]

RunAllSeedersOutcome(items) ==
    RunAllSeedersFrom(items, RunAllSeedersAt(items, 1), <<>>)

\* Carry out a decision d of a call whose loop ranges over the sequence
\* over, stack and log being the functions in progress and the functions
\* entered so far.  The loop's locals are gone once the call has returned.
Proceed(d, over, stack, log) ==
    /\ pc' = IF d.go THEN "action" ELSE "idle"
    /\ rng' = IF d.go THEN over ELSE <<>>
    /\ idx' = IF d.go THEN d.k ELSE 0
    /\ active' = IF d.go THEN Append(stack, d.item) ELSE stack
    /\ executionLog' = IF d.go THEN Append(log, d.item) ELSE log
    /\ ret' = d.err

\* log.Println("Running all seeders...")
RunningAllLine == [line |-> "running all"]

\* log.Printf("Running seeder: %s", name)
RunningLine(name) == [line |-> "running", name |-> name]

\* log.Printf("Seeder '%s' completed successfully", name)
CompletedLine(name) == [line |-> "completed", name |-> name]

\* log.Println("All seeders completed successfully!")
AllCompletedLine == [line |-> "all completed"]

\* The line logged on the way into the function of the decision d.
RunningLines(d) == IF d.go THEN <<RunningLine(d.item.Name)>> ELSE <<>>

\* The completion logged whatever the function returned.
CompletedLines_Always(name, err) == <<CompletedLine(name)>>

\* The line logged when the function of the seeder name has returned err.
CompletedLines(name, err) ==
    IF err # Nil THEN <<>> ELSE <<CompletedLine(name)>>

\* The line RunAllSeeders logs when its loop ends with the decision d.
AllCompletedLines(d) ==
    IF ~d.go /\ d.err = Nil THEN <<AllCompletedLine>> ELSE <<>>

\* RunSeederByName taking the name out of the map once it has looked it up.
RunSeederByName_Forgetting(name) ==
    /\ pc = "idle"
    /\ call' = [op |-> "RunSeederByName", arg |-> name]
    /\ Proceed(RunSeederByNameAt(seederMap, name, 1), <<name>>, active, <<>>)
    /\ logged' = RunningLines(RunSeederByNameAt(seederMap, name, 1))
    /\ seederMap' = [n \in (DOMAIN seederMap) \ {name} |-> seederMap[n]]
    /\ UNCHANGED seeders

RunSeederByName(name) ==
    /\ pc = "idle"
    /\ call' = [op |-> "RunSeederByName", arg |-> name]
    /\ Proceed(RunSeederByNameAt(seederMap, name, 1), <<name>>, active, <<>>)
    /\ logged' = RunningLines(RunSeederByNameAt(seederMap, name, 1))
    /\ UNCHANGED <<seeders, seederMap>>

RunSeedersInOrder(names) ==
    /\ pc = "idle"
    /\ call' = [op |-> "RunSeedersInOrder", arg |-> names]
    /\ Proceed(RunSeedersInOrderAt(seederMap, names, 1), names, active, <<>>)
    /\ logged' = RunningLines(RunSeedersInOrderAt(seederMap, names, 1))
    /\ UNCHANGED <<seeders, seederMap>>

RunAllSeeders ==
    /\ pc = "idle"
    /\ call' = [op |-> "RunAllSeeders", arg |-> <<>>]
    /\ Proceed(RunAllSeedersAt(seeders, 1), seeders, active, <<>>)
    /\ logged' = <<RunningAllLine>>
                  \o RunningLines(RunAllSeedersAt(seeders, 1))
                  \o AllCompletedLines(RunAllSeedersAt(seeders, 1))
    /\ UNCHANGED <<seeders, seederMap>>

\* The function in progress, the innermost one.
Current == active[Len(active)]

Pop(stack) == SubSeq(stack, 1, Len(stack) - 1)

\* The seeder function called by RunSeederByName returns.
ReturnToRunSeederByName ==
    /\ pc = "action"
    /\ call.op = "RunSeederByName"
    /\ Proceed(Done(idx, RunSeederByNameResult(rng[idx], Behaviour(Current.Function))),
               rng, Pop(active), executionLog)
    /\ logged' = logged \o CompletedLines(rng[idx], Behaviour(Current.Function))
    /\ UNCHANGED <<seeders, seederMap, call>>

\* The seeder function called by an iteration of RunSeedersInOrder returns.
ReturnToRunSeedersInOrder ==
    /\ pc = "action"
    /\ call.op = "RunSeedersInOrder"
    /\ LET d == RunSeedersInOrderAfter(seederMap, rng, idx,
                    RunSeederByNameResult(rng[idx], Behaviour(Current.Function)))
       IN /\ Proceed(d, rng, Pop(active), executionLog)
          /\ logged' = logged
                        \o CompletedLines(rng[idx], Behaviour(Current.Function))
                        \o RunningLines(d)
    /\ UNCHANGED <<seeders, seederMap, call>>

\* RunAllSeeders reading sm.seeders anew at every iteration instead of
\* ranging over the slice it had when the loop began.
ReturnToRunAllSeeders_Live ==
    /\ pc = "action"
    /\ call.op = "RunAllSeeders"
    /\ LET d == RunAllSeedersAfter(seeders, idx, Behaviour(Current.Function))
       IN /\ Proceed(d, seeders, Pop(active), executionLog)
          /\ logged' = logged
                        \o CompletedLines(rng[idx].Name,
                                          Behaviour(Current.Function))
                        \o RunningLines(d)
                        \o AllCompletedLines(d)
    /\ UNCHANGED <<seeders, seederMap, call>>

\* The seeder function called by an iteration of RunAllSeeders returns.
ReturnToRunAllSeeders ==
    /\ pc = "action"
    /\ call.op = "RunAllSeeders"
    /\ LET d == RunAllSeedersAfter(rng, idx, Behaviour(Current.Function))
       IN /\ Proceed(d, rng, Pop(active), executionLog)
          /\ logged' = logged
                        \o CompletedLines(rng[idx].Name,
                                          Behaviour(Current.Function))
                        \o RunningLines(d)
                        \o AllCompletedLines(d)
    /\ UNCHANGED <<seeders, seederMap, call>>

\* ---------------------------------------------------------------------
\* Queries, as calls
\* ---------------------------------------------------------------------

NamesValue(names) == [kind |-> "names", names |-> names]

BoolValue(b) == [kind |-> "bool", value |-> b]

\* A call of a manager method that reads only: it returns value.
ReadOnlyCall(op, arg, value) ==
    /\ call' = [op |-> op, arg |-> arg]
    /\ ret' = value
    /\ executionLog' = <<>>
    /\ logged' = <<>>
    /\ UNCHANGED <<seeders, seederMap, pc, rng, idx, active>>

CallGetRegisteredSeeders ==
    /\ pc = "idle"
    /\ ReadOnlyCall("GetRegisteredSeeders", <<>>,
                    NamesValue(GetRegisteredSeeders))

CallIsSeederRegistered(name) ==
    /\ pc = "idle"
    /\ ReadOnlyCall("IsSeederRegistered", name,
                    BoolValue(IsSeederRegistered(name)))

\* ---------------------------------------------------------------------
\* Command line front end
\* ---------------------------------------------------------------------

\* A CLI holding a copy of the manager as it was when NewCLI was called on
\* the new manager.
CLIManager_Copy == [seeders |-> <<>>, seederMap |-> <<>>]

\* *cli.manager: the CLI holds a pointer to the manager, so what it reads is
\* the manager as it is now.
CLIManager == Manager

\* cli.manager.GetRegisteredSeeders()
CLIGetRegisteredSeeders ==
    [k \in 1..Len(CLIManager.seeders) |-> CLIManager.seeders[k].Name]

\* cli.manager.IsSeederRegistered(name)
CLIIsSeederRegistered(name) == name \in DOMAIN CLIManager.seederMap

\* The command lines: without a flag, with -type=<value>, or with a flag
\* that the program does not define.
CLIArgs ==
    {<<>>} \cup {<<[flag |-> "type", value |-> v]>> : v \in Selectors}
           \cup {<<[flag |-> "verbose", value |-> "true"]>>}

\* flag.String("type", ...) on the process-wide flag set: defining a name
\* that is defined already panics ("flag redefined: type").
FlagRedefined(defined, name) == name \in defined

\* flag.Parse() on the process-wide flag set, which is made with
\* flag.ExitOnError: a flag of the command line that is not defined ends
\* the process.
ParseError(defined, args) ==
    \E k \in 1..Len(args) : args[k].flag \notin defined

\* *seedType after flag.Parse(): the value of the last -type of the command
\* line, the default "" when there is none.
FlagType(args) ==
    LET given == {k \in 1..Len(args) : args[k].flag = "type"}
    IN IF given = {} THEN ""
       ELSE args[CHOOSE k \in given : \A j \in given : j <= k].value

\* strings.ToUpper on the application names.
ToUpper(app) ==
    CASE app = "seeder" -> "SEEDER"
      [] app = "myapp" -> "MYAPP"
      [] OTHER -> app

\* The lines Usage logs for each registered name, from number n on.
RECURSIVE UsageEntries(_, _, _)
UsageEntries(app, names, n) ==
    IF names = <<>> THEN <<>>
    ELSE << [line |-> "entry", n |-> n, name |-> Head(names)],
            [line |-> "command", app |-> app, type |-> Head(names)],
            [line |-> "blank"] >>
         \o UsageEntries(app, Tail(names), n + 1)

\* Usage numbering the registered names by the index of its loop.
UsageLines_FromZero(app, names) ==
    << [line |-> "rule", width |-> 61],
       [line |-> "title", title |-> ToUpper(app)],
       [line |-> "rule", width |-> 61],
       [line |-> "blank"],
       [line |-> "usage"],
       [line |-> "form", app |-> app, form |-> "-type=all"],
       [line |-> "form", app |-> app, form |-> "-type=<name>"],
       [line |-> "form", app |-> app, form |-> ""],
       [line |-> "blank"] >>
    \o IF Len(names) = 0
       THEN << [line |-> "no seeders registered"] >>
       ELSE << [line |-> "available seeders"],
               [line |-> "rule", width |-> 41] >>
            \o UsageEntries(app, names, 0)
            \o << [line |-> "quick commands"],
                  [line |-> "form", app |-> app, form |-> "-type=all"],
                  [line |-> "rule", width |-> 61] >>

\* The lines Usage logs, names being the registered names.
UsageLines(app, names) ==
    << [line |-> "rule", width |-> 61],
       [line |-> "title", title |-> ToUpper(app)],
       [line |-> "rule", width |-> 61],
       [line |-> "blank"],
       [line |-> "usage"],
       [line |-> "form", app |-> app, form |-> "-type=all"],
       [line |-> "form", app |-> app, form |-> "-type=<name>"],
       [line |-> "form", app |-> app, form |-> ""],
       [line |-> "blank"] >>
    \o IF Len(names) = 0
       THEN << [line |-> "no seeders registered"] >>
       ELSE << [line |-> "available seeders"],
               [line |-> "rule", width |-> 41] >>
            \o UsageEntries(app, names, 1)
            \o << [line |-> "quick commands"],
                  [line |-> "form", app |-> app, form |-> "-type=all"],
                  [line |-> "rule", width |-> 61] >>

\* log.Printf("Starting seeder with type: %s", *seedType)
StartingLine(seedType) == [line |-> "starting", type |-> seedType]

\* log.Printf("Unknown seeder type: %s", *seedType)
UnknownLine(seedType) == [line |-> "unknown", type |-> seedType]

\* log.Printf("Available seeders: %v", cli.manager.GetRegisteredSeeders())
AvailableLine(names) == [line |-> "available", names |-> names]

\* os.Exit(1)
ExitStatus == 1

\* The status of a process that flag.Parse() ends: os.Exit(2).
ParseExitStatus == 2

\* The status of a process ended by a panic that nothing recovers.
PanicExitStatus == 2

\* Run treating a -type value that is neither "all" nor registered like a
\* missing one.
Dispatch_UnknownShowsUsage(seedType, registered) ==
    IF seedType = "" THEN "usage"
    ELSE IF seedType = "all" THEN "all"
    ELSE IF registered THEN "one"
    ELSE "usage"

\* Run taking an empty -type value for "all".
Dispatch_EmptyRunsAll(seedType, registered) ==
    IF seedType = "" \/ seedType = "all" THEN "all"
    ELSE IF registered THEN "one"
    ELSE "exit"

\* Run taking "all" for a name like any other.
Dispatch_AllIsAName(seedType, registered) ==
    IF seedType = "" THEN "usage"
    ELSE IF registered THEN "one"
    ELSE "exit"

\* The branch Run takes for the value of -type, registered telling whether
\* that value is a registered name.
Dispatch(seedType, registered) ==
    IF seedType = "" THEN "usage"
    ELSE IF seedType = "all" THEN "all"
    ELSE IF registered THEN "one"
    ELSE "exit"

\* Run keeping the error of the manager to itself.
CLIResult_Swallowed(err) == Nil

\* "return cli.manager.RunAllSeeders()" / "return
\* cli.manager.RunSeederByName(*seedType)": Run returns the manager's error.
CLIResult(err) == err

\* The program calls a manager method itself, not through the CLI.
DirectCall ==
    /\ cliCall' = NoCLICall
    /\ cliRet' = Nil
    /\ output' = <<>>
    /\ UNCHANGED <<appName, exitCode, flagSet>>

\* It does so without keeping or touching a slice of names.
Direct == DirectCall /\ UNCHANGED callerVars

\* GetRegisteredSeeders keeping its slice of names in the manager and
\* filling it again at every call: the array is the one the caller holds.
MakeNames_Cached(h, keep) == IF keep = 0 THEN 1 ELSE keep

\* make([]string, len(sm.seeders)): a new array, at an address where no
\* array is in use; keep is the address of the array the caller holds.
MakeNames(h, keep) == CHOOSE a \in Addresses : a # keep /\ h[a] = <<>>

\* The caller calls GetRegisteredSeeders and keeps the slice it returns
\* (keeps = TRUE, letting go of the one it held) or drops it.  An array
\* that nothing refers to is no longer in use.
GetNames(keeps) ==
    /\ CallGetRegisteredSeeders
    /\ LET a == MakeNames(heap, held)
           filled == [heap EXCEPT ![a] = GetRegisteredSeeders]
       IN /\ held' = IF keeps THEN a ELSE held
          /\ heap' = [b \in Addresses |->
                          IF b = held' THEN filled[b] ELSE <<>>]
    /\ DirectCall
    /\ UNCHANGED doubleVars

\* The slice of names the caller holds.
HeldNames == IF held = 0 THEN <<>> ELSE heap[held]

\* What the caller stores in the slice it holds.
Marks == {"z"}

\* The caller assigns to element i of the slice it holds.
ModifyNames(i, v) ==
    /\ pc = "idle"
    /\ held # 0
    /\ i \in 1..Len(heap[held])
    /\ heap[held][i] # v
    /\ heap' = [heap EXCEPT ![held][i] = v]
    /\ UNCHANGED <<held, seeders, seederMap, pc, call, rng, idx, active,
                   executionLog, ret, cliVars, logged, doubleVars>>

\* A seeder function returns to the manager method that Run called, and
\* that method goes on; when it returns, Run returns.
ReturnThroughCLI ==
    IF cliCall.op = "Run"
    THEN /\ cliRet' = IF pc' = "idle" THEN CLIResult(ret') ELSE Pending
         /\ UNCHANGED <<appName, cliCall, output, exitCode, flagSet>>
         /\ UNCHANGED callerVars
    ELSE UNCHANGED <<cliVars, callerVars>>

\* cli.Usage()
Usage ==
    /\ pc = "idle"
    /\ cliCall' = [op |-> "Usage", args |-> <<>>]
    /\ output' = UsageLines(appName, CLIGetRegisteredSeeders)
    /\ cliRet' = Nil
    /\ ReadOnlyCall("GetRegisteredSeeders", <<>>,
                    NamesValue(CLIGetRegisteredSeeders))
    /\ UNCHANGED <<appName, exitCode, flagSet, callerVars>>

\* Run of a CLI without an application name showing the usage text whatever
\* the command line is.
RunPlan_NamelessShowsUsage(app, args) ==
    IF FlagRedefined(flagSet, "type")
    THEN [branch |-> "panic", seedType |-> "", flags |-> flagSet,
          output |-> <<>>]
    ELSE IF ParseError(flagSet \cup {"type"}, args)
    THEN [branch |-> "parse", seedType |-> "",
          flags |-> flagSet \cup {"type"}, output |-> <<>>]
    ELSE LET seedType == FlagType(args)
             branch == IF app = "" THEN "usage"
                       ELSE Dispatch(seedType, CLIIsSeederRegistered(seedType))
         IN [branch |-> branch, seedType |-> seedType,
             flags |-> flagSet \cup {"type"},
             output |->
                 CASE branch = "usage" ->
                        UsageLines(app, CLIGetRegisteredSeeders)
                   [] branch = "exit" ->
                        <<StartingLine(seedType), UnknownLine(seedType),
                          AvailableLine(CLIGetRegisteredSeeders)>>
                        \o UsageLines(app, CLIGetRegisteredSeeders)
                   [] OTHER -> <<StartingLine(seedType)>>]

\* What Run of a CLI whose application name is app does with the command
\* line args before it calls the manager, returns or ends the process: the
\* branch it takes, the value of -type if it reads one, the flags defined
\* afterwards, and the lines it logs.
RunPlan(app, args) ==
    IF FlagRedefined(flagSet, "type")
    THEN [branch |-> "panic", seedType |-> "", flags |-> flagSet,
          output |-> <<>>]
    ELSE IF ParseError(flagSet \cup {"type"}, args)
    THEN [branch |-> "parse", seedType |-> "",
          flags |-> flagSet \cup {"type"}, output |-> <<>>]
    ELSE LET seedType == FlagType(args)
             branch == Dispatch(seedType, CLIIsSeederRegistered(seedType))
         IN [branch |-> branch, seedType |-> seedType,
             flags |-> flagSet \cup {"type"},
             output |->
                 CASE branch = "usage" ->
                        UsageLines(app, CLIGetRegisteredSeeders)
                   [] branch = "exit" ->
                        <<StartingLine(seedType), UnknownLine(seedType),
                          AvailableLine(CLIGetRegisteredSeeders)>>
                        \o UsageLines(app, CLIGetRegisteredSeeders)
                   [] OTHER -> <<StartingLine(seedType)>>]

\* Run takes the branch for the value seedType of -type.
RunDispatch(branch, seedType) ==
    CASE branch = "usage" ->
           /\ cliRet' = Nil
           /\ ReadOnlyCall("GetRegisteredSeeders", <<>>,
                           NamesValue(CLIGetRegisteredSeeders))
           /\ UNCHANGED exitCode
      [] branch = "all" ->
           /\ RunAllSeeders
           /\ cliRet' = IF pc' = "idle" THEN CLIResult(ret') ELSE Pending
           /\ UNCHANGED exitCode
      [] branch = "one" ->
           /\ RunSeederByName(seedType)
           /\ cliRet' = IF pc' = "idle" THEN CLIResult(ret') ELSE Pending
           /\ UNCHANGED exitCode
      [] branch = "exit" ->
           /\ call' = [op |-> "GetRegisteredSeeders", arg |-> <<>>]
           /\ ret' = NamesValue(CLIGetRegisteredSeeders)
           /\ executionLog' = <<>>
           /\ logged' = <<>>
           /\ pc' = "exited"
           /\ exitCode' = ExitStatus
           /\ cliRet' = Pending
           /\ UNCHANGED <<seeders, seederMap, rng, idx, active>>

\* No call of a manager method.
NoCall == [op |-> "none", arg |-> <<>>]

\* The process ends inside Run before Run has called the manager.
RunEnds(how, status) ==
    /\ pc' = how
    /\ exitCode' = status
    /\ cliRet' = Pending
    /\ call' = NoCall
    /\ ret' = Nil
    /\ executionLog' = <<>>
    /\ logged' = <<>>
    /\ UNCHANGED <<seeders, seederMap, rng, idx, active>>

\* cli.Run() in a process whose command line is args.
Run(args) ==
    /\ pc = "idle"
    /\ cliCall' = [op |-> "Run", args |-> args]
    /\ UNCHANGED <<appName, callerVars>>
    /\ LET plan == RunPlan(appName, args)
       IN /\ flagSet' = plan.flags
          /\ output' = plan.output
          /\ CASE plan.branch = "panic" ->
                     RunEnds("panicked", PanicExitStatus)
               [] plan.branch = "parse" ->
                     RunEnds("exited", ParseExitStatus)
               [] OTHER -> RunDispatch(plan.branch, plan.seedType)

\* The program uses the manager only.
Next ==
    \/ \E name \in Names, function \in Functions :
           RegisterSeeder(name, function) /\ Direct
    \/ \E batch \in Batches : RegisterSeeders(batch) /\ Direct
    \/ CallGetRegisteredSeeders /\ Direct
    \/ \E name \in Names : CallIsSeederRegistered(name) /\ Direct
    \/ \E name \in Names : RunSeederByName(name) /\ Direct
    \/ \E names \in Orders : RunSeedersInOrder(names) /\ Direct
    \/ RunAllSeeders /\ Direct
    \/ ReturnToRunSeederByName /\ ReturnThroughCLI
    \/ ReturnToRunSeedersInOrder /\ ReturnThroughCLI
    \/ ReturnToRunAllSeeders /\ ReturnThroughCLI

Spec == Init /\ [][Next]_vars

\* The program registers seeders and uses the manager and the CLI.
NextCLI ==
    \/ \E name \in CLINames, function \in Functions :
           RegisterSeeder(name, function) /\ Direct
    \/ \E batch \in SmallBatches : RegisterSeeders(batch) /\ Direct
    \/ CallGetRegisteredSeeders /\ Direct
    \/ \E name \in CLINames : CallIsSeederRegistered(name) /\ Direct
    \/ \E name \in CLINames : RunSeederByName(name) /\ Direct
    \/ \E names \in ShortOrders : RunSeedersInOrder(names) /\ Direct
    \/ RunAllSeeders /\ Direct
    \/ ReturnToRunSeederByName /\ ReturnThroughCLI
    \/ ReturnToRunSeedersInOrder /\ ReturnThroughCLI
    \/ ReturnToRunAllSeeders /\ ReturnThroughCLI
    \/ Usage
    \/ \E args \in CLIArgs : Run(args)

\* NewSeederManager, then NewCLI or NewCLIWithAppName.
InitAnyCLI == InitManager /\ (\E app \in AppNames : InitCLI(app))

SpecCLI == InitAnyCLI /\ [][NextCLI]_vars

\* The program registers seeders and keeps and changes the slices of names
\* it gets.
NextNames ==
    \/ \E name \in Names, function \in Functions :
           RegisterSeeder(name, function) /\ Direct
    \/ \E batch \in SmallBatches : RegisterSeeders(batch) /\ Direct
    \/ \E keeps \in BOOLEAN : GetNames(keeps)
    \/ \E i \in 1..Len(HeldNames), v \in Marks : ModifyNames(i, v)

SpecNames == Init /\ [][NextNames]_vars

\* The program registers and looks up names that are variants of one
\* another, through the manager and through the -type flag of the CLI.
NextVariants ==
    \/ \E name \in Variants, function \in Functions :
           RegisterSeeder(name, function) /\ Direct
    \/ \E name \in Variants : CallIsSeederRegistered(name) /\ Direct
    \/ \E name \in Variants : RunSeederByName(name) /\ Direct
    \/ ReturnToRunSeederByName /\ ReturnThroughCLI
    \/ \E name \in Variants : Run(<<[flag |-> "type", value |-> name]>>)

SpecVariants == Init /\ [][NextVariants]_vars

\* The items a seeder function registers while it runs.
AddedItems == {SeederItem("b", "seedOk"), SeederItem("c", "seedOk")}

\* The seeder function in progress calls RegisterSeeder(item.Name,
\* item.Function) on the manager that is running it.  The run goes on
\* with its own locals: the loop of RunAllSeeders ranges over the slice
\* that "range sm.seeders" evaluated when the loop began.
FunctionRegisters(item) ==
    /\ pc = "action"
    /\ Current.Function = "seedAdds"
    /\ LET r == RegisterSeederOn(Manager, item.Name, item.Function)
       IN /\ seeders' = r.sm.seeders
          /\ seederMap' = r.sm.seederMap
    /\ logged' = logged \o RegisterSeederLog(Manager, item.Name)
    /\ UNCHANGED <<pc, call, rng, idx, active, executionLog, ret,
                   cliVars, callerVars>>

\* The program runs seeders that register seeders.
NextReentrant ==
    \/ \E name \in OrderNames, function \in ReentrantFunctions :
           RegisterSeeder(name, function) /\ Direct
    \/ \E name \in OrderNames : RunSeederByName(name) /\ Direct
    \/ \E names \in ShortOrders : RunSeedersInOrder(names) /\ Direct
    \/ RunAllSeeders /\ Direct
    \/ ReturnToRunSeederByName /\ ReturnThroughCLI
    \/ ReturnToRunSeedersInOrder /\ ReturnThroughCLI
    \/ ReturnToRunAllSeeders /\ ReturnThroughCLI
    \/ \E item \in AddedItems : FunctionRegisters(item)

SpecReentrant == Init /\ [][NextReentrant]_vars

\* function() / seeder.Function() is the call of a function that is not
\* nil: the function is entered and returns.
CallsFunction == pc = "action" /\ Current.Function # NilFunction

\* function() / seeder.Function() is the call of a nil function: the call
\* panics (nil pointer dereference), the run method does not return and
\* the process ends, unless a caller recovers, with the status of a panic.
CallPanics ==
    /\ pc = "action"
    /\ Current.Function = NilFunction
    /\ pc' = "panicked"
    /\ exitCode' = PanicExitStatus
    /\ UNCHANGED <<seeders, seederMap, call, rng, idx, active, executionLog,
                   ret, appName, cliCall, cliRet, output, flagSet,
                   callerVars, logged>>

\* The program registers nil functions too.
NextNilFunction ==
    \/ \E name \in Names, function \in NilFunctions :
           RegisterSeeder(name, function) /\ Direct
    \/ \E name \in Names : RunSeederByName(name) /\ Direct
    \/ \E names \in ShortOrders : RunSeedersInOrder(names) /\ Direct
    \/ RunAllSeeders /\ Direct
    \/ CallsFunction /\ ReturnToRunSeederByName /\ ReturnThroughCLI
    \/ CallsFunction /\ ReturnToRunSeedersInOrder /\ ReturnThroughCLI
    \/ CallsFunction /\ ReturnToRunAllSeeders /\ ReturnThroughCLI
    \/ CallPanics

SpecNilFunction == Init /\ [][NextNilFunction]_vars

\* ---------------------------------------------------------------------
\* The test double TestSeederManager
\* ---------------------------------------------------------------------

\* The messages the caller hands to SetErrorBehavior.
ErrorMsgs == {"", "boom"}

\* The names the caller uses with the manager and its double.
DoubleNames == {"", "a", "b"}

\* tsm.SetErrorBehavior(shouldError, errorMsg) on a double value t.
SetErrorBehaviorOn(t, shouldError, errorMsg) ==
    [t EXCEPT !.shouldError = shouldError, !.errorMsg = errorMsg]

\* The error of a method of a double whose error behaviour is on: the
\* message that was set, or the method's own message when that is empty.
ShouldError(t, message) ==
    IF t.errorMsg # ""
    THEN TestError(<<t.errorMsg>>)
    ELSE TestError(<<message>>)

\* RegisterSeeder of the double without the check for an existing name.
TestRegisterSeederOn_NoDuplicateCheck(t, name, function) ==
    IF t.shouldError
    THEN [tsm |-> t, err |-> ShouldError(t, "registration error")]
    ELSE IF name = ""
    THEN [tsm |-> t, err |-> TestError(<<"seeder name cannot be empty">>)]
    ELSE [tsm |-> [t EXCEPT
                     !.seeders = Append(t.seeders, SeederItem(name, function)),
                     !.seederMap = MapPut(t.seederMap, name, function)],
          err |-> Nil]

\* The body of RegisterSeeder of the double on a double value t: the
\* double afterwards and the error returned.
TestRegisterSeederOn(t, name, function) ==
    IF t.shouldError
    THEN [tsm |-> t, err |-> ShouldError(t, "registration error")]
    ELSE IF name = ""
    THEN [tsm |-> t, err |-> TestError(<<"seeder name cannot be empty">>)]
    ELSE IF name \in DOMAIN t.seederMap
    THEN [tsm |-> t,
          err |-> TestError(<<"seeder with name '", name,
                              "' already exists">>)]
    ELSE [tsm |-> [t EXCEPT
                     !.seeders = Append(t.seeders, SeederItem(name, function)),
                     !.seederMap = MapPut(t.seederMap, name, function)],
          err |-> Nil]

\* The loop of RegisterSeeders of the double over the batch.
RECURSIVE TestRegisterSeedersOn(_, _)
TestRegisterSeedersOn(t, batch) ==
    IF batch = <<>>
    THEN [tsm |-> t, err |-> Nil]
    ELSE LET seeder == Head(batch)
             r == TestRegisterSeederOn(t, seeder.Name, seeder.Function)
         IN IF r.err # Nil
            THEN [tsm |-> r.tsm,
                  err |-> TestError(<<"failed to register seeder '",
                                      seeder.Name, "': ">>
                                        \o Message(r.err))]
            ELSE TestRegisterSeedersOn(r.tsm, Tail(batch))

\* GetRegisteredSeeders of the double.
TestGetRegisteredSeedersOn(t) ==
    [k \in 1..Len(t.seeders) |-> t.seeders[k].Name]

\* IsSeederRegistered of the double.
TestIsSeederRegisteredOn(t, name) == name \in DOMAIN t.seederMap

\* RunSeederByName of the double looking the name up and calling the
\* function before it looks at its error behaviour.
TestRunSeederByNameOn_RunsFirst(t, name) ==
    IF name \in DOMAIN t.seederMap
    THEN [err |-> IF t.shouldError
                  THEN ShouldError(t, "execution error")
                  ELSE Behaviour(t.seederMap[name]),
          log |-> <<SeederItem(name, t.seederMap[name])>>]
    ELSE [err |-> TestError(<<"seeder with name '", name, "' not found">>),
          log |-> <<>>]

\* RunSeederByName of the double: the error it returns and the items whose
\* functions it enters.  "return function()" hands on what the function
\* returns as it is.
TestRunSeederByNameOn(t, name) ==
    IF t.shouldError
    THEN [err |-> ShouldError(t, "execution error"), log |-> <<>>]
    ELSE IF name \in DOMAIN t.seederMap
    THEN [err |-> Behaviour(t.seederMap[name]),
          log |-> <<SeederItem(name, t.seederMap[name])>>]
    ELSE [err |-> TestError(<<"seeder with name '", name, "' not found">>),
          log |-> <<>>]

\* RunSeedersInOrder of the double: the loop over the names.
RECURSIVE TestRunSeedersInOrderOn(_, _)
TestRunSeedersInOrderOn(t, names) ==
    IF names = <<>>
    THEN [err |-> Nil, log |-> <<>>]
    ELSE LET r == TestRunSeederByNameOn(t, Head(names))
         IN IF r.err # Nil
            THEN r
            ELSE LET rest == TestRunSeedersInOrderOn(t, Tail(names))
                 IN [err |-> rest.err, log |-> r.log \o rest.log]

\* RunAllSeeders of the double: the loop over items, the sequence of the
\* double.  It does not look at the error behaviour.
RECURSIVE TestRunAllSeedersOn(_)
TestRunAllSeedersOn(items) ==
    IF items = <<>>
    THEN [err |-> Nil, log |-> <<>>]
    ELSE LET seeder == Head(items)
             err == Behaviour(seeder.Function)
         IN IF err # Nil
            THEN [err |-> TestError(<<"seeder '", seeder.Name, "' failed: ">>
                                      \o Message(err)),
                  log |-> <<seeder>>]
            ELSE LET rest == TestRunAllSeedersOn(Tail(items))
                 IN [err |-> rest.err, log |-> <<seeder>> \o rest.log]

\* A call of a method of the double that leaves the double as it is.
TestCall(r) ==
    /\ tsmRet' = r.err
    /\ tsmLog' = r.log
    /\ UNCHANGED tsm

TestRegisterSeeder(name, function) ==
    LET r == TestRegisterSeederOn(tsm, name, function)
    IN /\ tsm' = r.tsm
       /\ tsmRet' = r.err
       /\ tsmLog' = <<>>

TestRegisterSeeders(batch) ==
    LET r == TestRegisterSeedersOn(tsm, batch)
    IN /\ tsm' = r.tsm
       /\ tsmRet' = r.err
       /\ tsmLog' = <<>>

TestGetRegisteredSeeders ==
    TestCall([err |-> NamesValue(TestGetRegisteredSeedersOn(tsm)),
              log |-> <<>>])

TestIsSeederRegistered(name) ==
    TestCall([err |-> BoolValue(TestIsSeederRegisteredOn(tsm, name)),
              log |-> <<>>])

TestRunSeederByName(name) == TestCall(TestRunSeederByNameOn(tsm, name))

TestRunSeedersInOrder(names) == TestCall(TestRunSeedersInOrderOn(tsm, names))

TestRunAllSeeders == TestCall(TestRunAllSeedersOn(tsm.seeders))

\* The caller makes the call on the manager itself, having made it on the
\* double it keeps.
Beside == DirectCall /\ UNCHANGED <<heap, held>>

\* The caller calls tsm.SetErrorBehavior(shouldError, errorMsg); its last
\* call is not one of a method that the manager has.
SetErrorBehavior(shouldError, errorMsg) ==
    /\ pc = "idle"
    /\ tsm' = SetErrorBehaviorOn(tsm, shouldError, errorMsg)
    /\ tsmRet' = Nil
    /\ tsmLog' = <<>>
    /\ call' = NoCall
    /\ ret' = Nil
    /\ executionLog' = <<>>
    /\ logged' = <<>>
    /\ UNCHANGED <<seeders, seederMap, pc, rng, idx, active>>
    /\ Beside

\* The program is a test that makes every call on the double and on the
\* manager, and sets the error behaviour of the double.
NextDouble ==
    \/ \E name \in DoubleNames, function \in Functions :
           RegisterSeeder(name, function) /\ Beside
               /\ TestRegisterSeeder(name, function)
    \/ \E batch \in SmallBatches :
           RegisterSeeders(batch) /\ Beside /\ TestRegisterSeeders(batch)
    \/ CallGetRegisteredSeeders /\ Beside /\ TestGetRegisteredSeeders
    \/ \E name \in DoubleNames :
           CallIsSeederRegistered(name) /\ Beside
               /\ TestIsSeederRegistered(name)
    \/ \E name \in DoubleNames :
           RunSeederByName(name) /\ Beside /\ TestRunSeederByName(name)
    \/ \E names \in ShortOrders :
           RunSeedersInOrder(names) /\ Beside /\ TestRunSeedersInOrder(names)
    \/ RunAllSeeders /\ Beside /\ TestRunAllSeeders
    \/ ReturnToRunSeederByName /\ ReturnThroughCLI
    \/ ReturnToRunSeedersInOrder /\ ReturnThroughCLI
    \/ ReturnToRunAllSeeders /\ ReturnThroughCLI
    \/ \E shouldError \in BOOLEAN, errorMsg \in ErrorMsgs :
           SetErrorBehavior(shouldError, errorMsg)

SpecDouble == Init /\ [][NextDouble]_vars

\* A seeder function that was called returns.
FunctionReturns ==
    /\ \/ ReturnToRunSeederByName
       \/ ReturnToRunSeedersInOrder
       \/ ReturnToRunAllSeeders
    /\ ReturnThroughCLI

\* The programs in which every seeder function that is called returns.
SpecReturning == Spec /\ WF_vars(FunctionReturns)

SpecCLIReturning == SpecCLI /\ WF_vars(FunctionReturns)

\* ---------------------------------------------------------------------
\* Properties
\* ---------------------------------------------------------------------

\* The step is a call of RegisterSeeder / of RegisterSeeders.
IsRegisterSeederStep == pc = "idle" /\ call'.op = "RegisterSeeder"

IsRegisterSeedersStep == pc = "idle" /\ call'.op = "RegisterSeeders"

IsPrefix(s, t) == Len(s) <= Len(t) /\ s = SubSeq(t, 1, Len(s))

NamesOf(items) == [k \in 1..Len(items) |-> items[k].Name]

\* C1: in every reachable state the names in the ordered sequence are
\* exactly the keys of the name-to-function mapping, and no name occurs
\* twice in the sequence.
C1_SequenceMatchesMap ==
    /\ {seeders[k].Name : k \in 1..Len(seeders)} = DOMAIN seederMap
    /\ \A j, k \in 1..Len(seeders) : seeders[j].Name = seeders[k].Name => j = k

\* A registry of three tasks on which a duplicate registration has just been
\* rejected.
C1_Witness ==
    /\ Len(seeders) = 3
    /\ call.op = "RegisterSeeder"
    /\ ret.kind = "DuplicateName"

\* The names a batch adds to a registry holding the names in known, by the
\* rule of the registry: items are taken in order up to the first one whose
\* name is empty, already known, or repeated in the batch.
RECURSIVE AcceptedNames(_, _)
AcceptedNames(known, batch) ==
    IF batch = <<>> THEN <<>>
    ELSE IF Head(batch).Name = "" \/ Head(batch).Name \in known THEN <<>>
    ELSE <<Head(batch).Name>>
             \o AcceptedNames(known \cup {Head(batch).Name}, Tail(batch))

\* C2: the list of registered names is the names of the registrations that
\* succeeded, in the order in which they succeeded: a successful
\* RegisterSeeder puts its name at the end of the list and makes it
\* registered, a failed one leaves the list alone, RegisterSeeders adds the
\* names of the items it accepted in batch order, and no other step changes
\* the list.
C2_ListIsRegistrationOrder ==
    [][ /\ IsRegisterSeederStep =>
             /\ ret' = Nil =>
                  /\ GetRegisteredSeeders' =
                         Append(GetRegisteredSeeders, call'.arg.Name)
                  /\ \A n \in Names :
                         n = call'.arg.Name => IsSeederRegistered(n)'
             /\ ret' # Nil => GetRegisteredSeeders' = GetRegisteredSeeders
        /\ IsRegisterSeedersStep =>
             /\ GetRegisteredSeeders' = GetRegisteredSeeders
                    \o AcceptedNames(DOMAIN seederMap, call'.arg)
             /\ \A n \in Names :
                    (\E k \in 1..Len(GetRegisteredSeeders') :
                         GetRegisteredSeeders'[k] = n)
                    => IsSeederRegistered(n)'
        /\ ~IsRegisterSeederStep /\ ~IsRegisterSeedersStep =>
             GetRegisteredSeeders' = GetRegisteredSeeders
      ]_vars

\* "b" then "a" were registered on an empty registry: the list is not in
\* alphabetical order.
C2_Witness ==
    /\ GetRegisteredSeeders = <<"b", "a">>
    /\ IsSeederRegistered("b") /\ IsSeederRegistered("a")
    /\ call.op = "RegisterSeeder" /\ call.arg.Name = "a" /\ ret = Nil

\* C3: the task sequence is append-only: every step keeps the list of names
\* as a prefix of the new list, keeps every registered name registered, and
\* keeps the function bound to every registered name, in the mapping and in
\* the sequence.
C3_AppendOnly ==
    [][ /\ IsPrefix(GetRegisteredSeeders, GetRegisteredSeeders')
        /\ IsPrefix(seeders, seeders')
        /\ \A n \in Names : IsSeederRegistered(n) =>
               IsSeederRegistered(n)' /\ seederMap'[n] = seederMap[n]
      ]_vars

\* The registry has grown to three tasks by a batch that failed after its
\* first item.
C3_Witness ==
    /\ call.op = "RegisterSeeders"
    /\ ret.kind = "RegisterFailed"
    /\ Len(seeders) = 3
    /\ seeders[3] = call.arg[1]

\* The step enters a seeder function: the log of entered functions grows by
\* one item (or starts anew with one item).
EntersFunction ==
    /\ pc' = "action"
    /\ executionLog' # executionLog

Entered == executionLog'[Len(executionLog')]

\* C4: RegisterSeeder for a name that is already registered returns the
\* duplicate-name error and leaves sequence and mapping unchanged; a name's
\* function is the one given when the name was first registered and stays
\* so; and every function a run enters is the function bound to its name,
\* so never the function of the rejected registration.
C4_DuplicateKeepsFirst ==
    [][ /\ IsRegisterSeederStep /\ IsSeederRegistered(call'.arg.Name) =>
             /\ ret' = DuplicateName(call'.arg.Name)
             /\ seeders' = seeders
             /\ seederMap' = seederMap
        /\ IsRegisterSeederStep /\ ret' = Nil =>
             /\ seederMap'[call'.arg.Name] = call'.arg.Function
             /\ seeders'[Len(seeders')] = call'.arg
        /\ \A n \in Names :
               IsSeederRegistered(n) => seederMap'[n] = seederMap[n]
        /\ EntersFunction =>
             /\ IsSeederRegistered(Entered.Name)
             /\ Entered.Function = seederMap[Entered.Name]
             /\ \E k \in 1..Len(seeders) : seeders[k] = Entered
      ]_vars

\* A registration of a registered name has just been rejected, and it came
\* with another function than the one the name is bound to.
C4_Witness ==
    /\ call.op = "RegisterSeeder"
    /\ ret = DuplicateName(call.arg.Name)
    /\ seederMap[call.arg.Name] = "seedOk"
    /\ call.arg.Function = "seedFail"

\* C5: RegisterSeeder with the empty name fails with the invalid-name error
\* and leaves both the task sequence and the mapping unchanged, whatever the
\* registry holds and whatever the function is.
C5_EmptyNameRejected ==
    [][ IsRegisterSeederStep /\ call'.arg.Name = "" =>
            /\ ret' = InvalidName
            /\ seeders' = seeders
            /\ seederMap' = seederMap
      ]_vars

\* The empty name has just been rejected on a registry that holds tasks.
C5_Witness ==
    /\ call.op = "RegisterSeeder"
    /\ call.arg.Name = ""
    /\ ret = InvalidName
    /\ Len(seeders) >= 1

\* The position of the first item of the batch that the registry rejects
\* when it holds the names in known: its name is empty, already known, or
\* repeated earlier in the batch.  0 when there is none.
FirstRejected(known, batch) ==
    LET bad(k) == \/ batch[k].Name = ""
                  \/ batch[k].Name \in known
                  \/ \E j \in 1..(k - 1) : batch[j].Name = batch[k].Name
    IN IF \E k \in 1..Len(batch) : bad(k)
       THEN CHOOSE k \in 1..Len(batch) :
                bad(k) /\ \A j \in 1..(k - 1) : ~bad(j)
       ELSE 0

\* C6: RegisterSeeders registers the items in batch order and stops at the
\* first rejected one: the error names that item and carries the
\* invalid-name or duplicate-name cause, the items before it are registered
\* and stay so, and none after it is registered.  Without a rejected item
\* the whole batch is registered and the call succeeds.
C6_BatchStopsAtFirstFailure ==
    [][ IsRegisterSeedersStep =>
          LET batch == call'.arg
              k == FirstRejected(DOMAIN seederMap, batch)
              taken == IF k = 0 THEN batch ELSE SubSeq(batch, 1, k - 1)
          IN /\ seeders' = seeders \o taken
             /\ DOMAIN seederMap' =
                    DOMAIN seederMap \cup {taken[j].Name : j \in 1..Len(taken)}
             /\ \A j \in 1..Len(taken) :
                    seederMap'[taken[j].Name] = taken[j].Function
             /\ k = 0 => ret' = Nil
             /\ k # 0 =>
                  ret' = RegisterFailed(batch[k].Name,
                             IF batch[k].Name = ""
                             THEN InvalidName
                             ELSE DuplicateName(batch[k].Name))
      ]_vars

\* A batch whose second item repeats the name of the first: the first is
\* registered, the call failed on the second.
C6_Witness ==
    /\ call.op = "RegisterSeeders"
    /\ Len(call.arg) = 2
    /\ call.arg[1].Name = call.arg[2].Name
    /\ ret = RegisterFailed(call.arg[2].Name, DuplicateName(call.arg[2].Name))
    /\ seeders[Len(seeders)] = call.arg[1]

\* A seeder function fails when it returns an error.
Fails(function) == Behaviour(function) # Nil

\* The position of the first item whose function fails, 0 when none does.
FirstFailing(items) ==
    IF \E k \in 1..Len(items) : Fails(items[k].Function)
    THEN CHOOSE k \in 1..Len(items) :
             /\ Fails(items[k].Function)
             /\ \A j \in 1..(k - 1) : ~Fails(items[j].Function)
    ELSE 0

\* C7: RunAllSeeders stops at the first error: with the first failing task
\* at position k of the registration order, the functions entered are those
\* of positions 1, 2, ... in that order, each once, never one after k, and
\* when the call has returned they are exactly those of positions 1..k and
\* the error is the execution failure of the task at position k.
C7_RunAllStopsAtFirstError ==
    call.op = "RunAllSeeders" =>
        LET k == FirstFailing(seeders)
        IN /\ IsPrefix(executionLog, seeders)
           /\ k # 0 => Len(executionLog) <= k
           /\ (k # 0 /\ pc = "idle") =>
                /\ executionLog = SubSeq(seeders, 1, k)
                /\ ret.kind = "ExecutionFailed"
                /\ ret.name = seeders[k].Name

\* [A succeeds, B fails, C succeeds]: A then B were entered, the call has
\* failed on B.
C7_Witness ==
    /\ call.op = "RunAllSeeders"
    /\ pc = "idle"
    /\ Len(seeders) = 3
    /\ ~Fails(seeders[1].Function)
    /\ Fails(seeders[2].Function)
    /\ ~Fails(seeders[3].Function)
    /\ executionLog = SubSeq(seeders, 1, 2)
    /\ ret.kind = "ExecutionFailed"

\* C8: when every registered function succeeds, RunAllSeeders has entered
\* every registered function exactly once, in registration order, when it
\* returns, and it returns nil.
C8_RunAllRunsEverything ==
    (call.op = "RunAllSeeders" /\ pc = "idle" /\ FirstFailing(seeders) = 0) =>
        /\ executionLog = seeders
        /\ ret = Nil

\* Three tasks that succeed have been run by RunAllSeeders.
C8_Witness ==
    /\ call.op = "RunAllSeeders"
    /\ pc = "idle"
    /\ Len(seeders) = 3
    /\ FirstFailing(seeders) = 0
    /\ Len(executionLog) = 3
    /\ ret = Nil

\* C9: RunSeedersInOrder enters the functions in the order of its argument,
\* whatever the registration order: the names entered are the argument's
\* first names in the argument's order, each with the function registered
\* under it; a function is entered only when every function entered before
\* it has returned, so the only one in progress is the last one entered;
\* and a call that returned nil has entered the whole argument.
C9_RunInOrderFollowsArgument ==
    call.op = "RunSeedersInOrder" =>
        /\ IsPrefix(NamesOf(executionLog), call.arg)
        /\ \A k \in 1..Len(executionLog) :
               /\ IsSeederRegistered(executionLog[k].Name)
               /\ executionLog[k].Function = seederMap[executionLog[k].Name]
        /\ pc = "action" => active = <<executionLog[Len(executionLog)]>>
        /\ pc = "idle" => active = <<>>
        /\ (pc = "idle" /\ ret = Nil) => NamesOf(executionLog) = call.arg

\* RunSeedersInOrder(["b", "a"]) on a registry where "a" was registered
\* before "b": "b" was entered first and has returned, "a" is in progress.
C9_Witness ==
    /\ call.op = "RunSeedersInOrder"
    /\ call.arg = <<"b", "a">>
    /\ \E j, k \in 1..Len(seeders) :
           j < k /\ seeders[j].Name = "a" /\ seeders[k].Name = "b"
    /\ pc = "action"
    /\ NamesOf(executionLog) = <<"b", "a">>
    /\ NamesOf(active) = <<"a">>

\* What RunSeederByName(name) returns on the registry as it is.
RunSeederByNameError(name) ==
    LET d == RunSeederByNameAt(seederMap, name, 1)
    IN IF d.go
       THEN RunSeederByNameResult(name, Behaviour(d.item.Function))
       ELSE d.err

\* The position of the first name for which RunSeederByName returns an
\* error, 0 when there is none.
FirstError(names) ==
    IF \E k \in 1..Len(names) : RunSeederByNameError(names[k]) # Nil
    THEN CHOOSE k \in 1..Len(names) :
             /\ RunSeederByNameError(names[k]) # Nil
             /\ \A j \in 1..(k - 1) : RunSeederByNameError(names[j]) = Nil
    ELSE 0

\* C10: RunSeedersInOrder stops at the first name for which RunSeederByName
\* returns an error: no name after it is ever attempted; when the call has
\* returned, its error is exactly the error of RunSeederByName for that
\* name, not-found for an unregistered name and execution-failed for a
\* failing function; and the functions of the names before it have been
\* entered (and that of the name itself when it is registered).
C10_RunInOrderStopsAtFirstError ==
    call.op = "RunSeedersInOrder" =>
        LET names == call.arg
            k == FirstError(names)
        IN k # 0 =>
             /\ Len(executionLog) <= k
             /\ pc = "idle" =>
                  /\ ret = RunSeederByNameError(names[k])
                  /\ ret.name = names[k]
                  /\ ret.kind = IF IsSeederRegistered(names[k])
                                THEN "ExecutionFailed"
                                ELSE "NotFound"
                  /\ NamesOf(executionLog) =
                         SubSeq(names, 1, IF IsSeederRegistered(names[k])
                                          THEN k ELSE k - 1)

\* An order of three names whose second name fails and whose third name is
\* registered: the first two were entered, the third never.
C10_Witness ==
    /\ call.op = "RunSeedersInOrder"
    /\ pc = "idle"
    /\ Len(call.arg) = 3
    /\ call.arg[3] # call.arg[2]
    /\ IsSeederRegistered(call.arg[3])
    /\ ret.kind = "ExecutionFailed"
    /\ NamesOf(executionLog) = SubSeq(call.arg, 1, 2)

\* The step is a call of RunSeederByName / RunSeedersInOrder / RunAllSeeders.
IsRunSeederByNameStep == pc = "idle" /\ call'.op = "RunSeederByName"

IsRunSeedersInOrderStep == pc = "idle" /\ call'.op = "RunSeedersInOrder"

IsRunAllSeedersStep == pc = "idle" /\ call'.op = "RunAllSeeders"

\* The call returns err at once, without entering a function and without
\* touching the registry.
ReturnsAtOnce(err) ==
    /\ ret' = err
    /\ pc' = "idle"
    /\ executionLog' = <<>>
    /\ active' = <<>>
    /\ seeders' = seeders
    /\ seederMap' = seederMap

\* C11: RunSeederByName for a name that is not registered, the empty name
\* included, returns the not-found error, enters no function and leaves the
\* registry unchanged.
C11_RunUnknownNameNotFound ==
    [][ IsRunSeederByNameStep /\ ~IsSeederRegistered(call'.arg) =>
            ReturnsAtOnce(NotFound(call'.arg))
      ]_vars

\* RunSeederByName("") has just failed on a registry that holds tasks.
C11_Witness ==
    /\ call.op = "RunSeederByName"
    /\ call.arg = ""
    /\ ret = NotFound("")
    /\ executionLog = <<>>
    /\ Len(seeders) >= 2

Pieces(err) == {Message(err)[k] : k \in 1..Len(Message(err))}

\* C12: RunSeederByName for a registered name enters the function of that
\* name, once, and no other; it returns nil iff the function did, and
\* otherwise the execution failure of the requested name with the
\* function's error as its cause, so that the message has both the name and
\* the message of the cause.
C12_RunByNameRunsOnce ==
    (call.op = "RunSeederByName" /\ IsSeederRegistered(call.arg)) =>
        /\ executionLog = <<SeederItem(call.arg, seederMap[call.arg])>>
        /\ pc = "idle" =>
             LET cause == Behaviour(seederMap[call.arg])
             IN /\ ret = Nil <=> cause = Nil
                /\ cause # Nil =>
                     /\ ret = ExecutionFailed(call.arg, cause)
                     /\ call.arg \in Pieces(ret)
                     /\ Pieces(cause) # {}
                     /\ Pieces(cause) \subseteq Pieces(ret)

\* RunSeederByName has failed on the failing function of one of two tasks.
C12_Witness ==
    /\ call.op = "RunSeederByName"
    /\ pc = "idle"
    /\ Len(seeders) >= 2
    /\ ret = ExecutionFailed(call.arg, ActionError("seedFail"))
    /\ Len(executionLog) = 1

\* C13: RunAllSeeders and RunSeedersInOrder(GetRegisteredSeeders()) enter
\* the same functions in the same order and return the same error, on every
\* reachable registry: as whole calls, and for every call of either that has
\* returned.
C13_RunAllIsRunInOrderOfList ==
    /\ RunAllSeedersOutcome(seeders) =
           RunSeedersInOrderOutcome(seederMap, GetRegisteredSeeders)
    /\ (call.op = "RunAllSeeders" /\ pc = "idle") =>
           [log |-> executionLog, ret |-> ret] =
               RunSeedersInOrderOutcome(seederMap, GetRegisteredSeeders)
    /\ (call.op = "RunSeedersInOrder" /\ pc = "idle"
            /\ call.arg = GetRegisteredSeeders) =>
           [log |-> executionLog, ret |-> ret] = RunAllSeedersOutcome(seeders)

\* RunSeedersInOrder was called with the list of the registered names, two
\* at least, and failed on the second.
C13_Witness ==
    /\ call.op = "RunSeedersInOrder"
    /\ pc = "idle"
    /\ call.arg = GetRegisteredSeeders
    /\ Len(seeders) >= 2
    /\ ret.kind = "ExecutionFailed"
    /\ Len(executionLog) = 2

\* C15: RegisterSeeders of no items and RunSeedersInOrder of no names
\* return nil, enter no function and leave the registry unchanged, whatever
\* the registry holds; so does RunAllSeeders on an empty registry.
C15_EmptyInputsAreNoOps ==
    [][ /\ IsRegisterSeedersStep /\ call'.arg = <<>> => ReturnsAtOnce(Nil)
        /\ IsRunSeedersInOrderStep /\ call'.arg = <<>> => ReturnsAtOnce(Nil)
        /\ IsRunAllSeedersStep /\ seeders = <<>> => ReturnsAtOnce(Nil)
      ]_vars

\* RunSeedersInOrder of no names has returned nil on a registry of tasks.
C15_Witness ==
    /\ call.op = "RunSeedersInOrder"
    /\ call.arg = <<>>
    /\ ret = Nil
    /\ Len(seeders) >= 2

\* The step registers the name n: a RegisterSeeder of n that returns nil, or
\* a RegisterSeeders that accepts an item named n.
RegistersNow(n) ==
    \/ IsRegisterSeederStep /\ call'.arg.Name = n /\ ret' = Nil
    \/ /\ IsRegisterSeedersStep
       /\ LET accepted == AcceptedNames(DOMAIN seederMap, call'.arg)
          IN \E k \in 1..Len(accepted) : accepted[k] = n

\* C16: IsSeederRegistered(name) is true iff a registration of exactly that
\* name has succeeded before: no name is registered at first, and a step
\* makes a name registered iff it registers it.  The empty name is never
\* registered.
C16_IsRegisteredIffRegistered ==
    /\ \A n \in Names : ~IsSeederRegistered(n)
    /\ [][ /\ \A n \in Names :
                 IsSeederRegistered(n)' <=>
                     (IsSeederRegistered(n) \/ RegistersNow(n))
           /\ ~IsSeederRegistered("")'
         ]_vars

\* "A" is registered and "a" is not, after the empty name was refused.
C16_Witness ==
    /\ IsSeederRegistered("A")
    /\ ~IsSeederRegistered("a")
    /\ ~IsSeederRegistered("")
    /\ call.op = "RegisterSeeder" /\ call.arg.Name = "" /\ ret = InvalidName

\* The step is a call of cli.Run / of cli.Usage.
IsRunStep == pc = "idle" /\ cliCall'.op = "Run"

IsUsageStep == pc = "idle" /\ cliCall'.op = "Usage"

\* The step is a call of cli.Run that gets as far as reading the value of
\* -type: it has defined the flag and flag.Parse() has returned.
ReadsSeedType ==
    /\ IsRunStep
    /\ ~FlagRedefined(flagSet, "type")
    /\ ~ParseError(flagSet', cliCall'.args)

\* The call of cli.Run in progress, or the last one, has read the value of
\* -type.
HasSeedType ==
    /\ cliCall.op = "Run"
    /\ pc # "panicked"
    /\ ~(pc = "exited" /\ exitCode = ParseExitStatus)

\* C14: only RegisterSeeder and RegisterSeeders change the task sequence or
\* the mapping: every other step (a call of RunSeederByName,
\* RunSeedersInOrder, RunAllSeeders, GetRegisteredSeeders,
\* IsSeederRegistered, of the CLI's Usage or Run, and every return of a
\* seeder function, whether the call succeeds or fails) leaves both as they
\* are.
C14_OnlyRegistrationMutates ==
    [][ (IsRegisterSeederStep \/ IsRegisterSeedersStep)
        \/ (seeders' = seeders /\ seederMap' = seederMap)
      ]_vars

\* A run through the CLI has failed on a registry of two tasks or more.
C14_Witness ==
    /\ cliCall.op = "Run"
    /\ cliRet.kind = "ExecutionFailed"
    /\ Len(seeders) >= 2
    /\ pc = "idle"

\* C17: Run without a -type value, or with an empty one, logs the usage
\* text, returns nil, enters no seeder function and does not terminate the
\* process, whatever the registry holds.
C17_NoSelectorShowsUsage ==
    [][ ReadsSeedType /\ FlagType(cliCall'.args) = "" =>
            /\ output' = UsageLines(appName, GetRegisteredSeeders)
            /\ cliRet' = Nil
            /\ executionLog' = <<>>
            /\ active' = <<>>
            /\ pc' = "idle"
            /\ exitCode' = 0
      ]_vars

\* Run with an empty -type value has returned on a registry of tasks.
C17_Witness ==
    /\ cliCall.op = "Run"
    /\ cliCall.args = <<[flag |-> "type", value |-> ""]>>
    /\ cliRet = Nil
    /\ Len(seeders) >= 2
    /\ Len(output) > 10

\* C18: Run with -type=all returns exactly what RunAllSeeders returns: it
\* enters the registered functions in registration order up to the first
\* failing one, hands the error to its caller without terminating the
\* process, and on an empty registry returns nil and enters nothing.
C18_AllRunsAllSeeders ==
    (HasSeedType /\ FlagType(cliCall.args) = "all") =>
        /\ pc # "exited" /\ exitCode = 0
        /\ IsPrefix(executionLog, seeders)
        /\ pc = "idle" =>
             /\ cliRet = ret
             /\ [log |-> executionLog, ret |-> cliRet] =
                    RunAllSeedersOutcome(seeders)
             /\ cliRet = Nil <=> FirstFailing(seeders) = 0
             /\ seeders = <<>> => cliRet = Nil /\ executionLog = <<>>

\* Run with -type=all has failed on the second of three tasks.
C18_Witness ==
    /\ cliCall.op = "Run"
    /\ FlagType(cliCall.args) = "all"
    /\ pc = "idle"
    /\ Len(seeders) = 3
    /\ cliRet.kind = "ExecutionFailed"
    /\ Len(executionLog) = 2

\* C19: for every registered name n, Run with -type=n enters the function
\* of n once and no other function, and returns what RunSeederByName(n)
\* returns.
C19_NameRunsThatSeeder ==
    (HasSeedType /\ IsSeederRegistered(FlagType(cliCall.args))
         /\ pc = "idle") =>
        LET n == FlagType(cliCall.args)
        IN /\ executionLog = <<SeederItem(n, seederMap[n])>>
           /\ cliRet = RunSeederByNameError(n)

\* C20: Run with a -type value that is not empty, not "all" and not a
\* registered name enters no seeder function, logs the unknown-type line
\* and after it the whole usage text, and terminates the process with a
\* status other than 0 instead of returning; nothing happens after that.
C20_UnknownSelectorExits ==
    [][ /\ (ReadsSeedType /\ FlagType(cliCall'.args) \notin {"", "all"}
                /\ ~IsSeederRegistered(FlagType(cliCall'.args))) =>
              LET usage == UsageLines(appName, GetRegisteredSeeders)
                  before == Len(output') - Len(usage)
              IN /\ executionLog' = <<>>
                 /\ active' = <<>>
                 /\ before >= 1
                 /\ SubSeq(output', before + 1, Len(output')) = usage
                 /\ \E k \in 1..before :
                        output'[k] = UnknownLine(FlagType(cliCall'.args))
                 /\ pc' = "exited"
                 /\ exitCode' # 0
                 /\ cliRet' = Pending
        /\ pc = "exited" => UNCHANGED vars
      ]_vars

\* The process has terminated on -type=a while other tasks are registered.
C20_Witness ==
    /\ pc = "exited"
    /\ exitCode = 1
    /\ cliCall.op = "Run"
    /\ FlagType(cliCall.args) = "a"
    /\ Len(seeders) >= 2
    /\ executionLog = <<>>

\* The process has terminated.
Terminated == pc \in {"exited", "panicked"}

\* The errors of the manager's methods.
IsRegistryError(err) ==
    err.kind \in {"InvalidName", "DuplicateName", "NotFound",
                  "ExecutionFailed", "RegisterFailed"}

\* C21: the process terminates on the unknown-selector path of Run and
\* nowhere else: whenever it has terminated, Run had read a -type value that
\* is not empty, not "all" and not a registered name; a call of a manager
\* method that returned an error has left the process running; and a failure
\* of a run made by Run is returned by Run.
C21_OnlyUnknownSelectorTerminates ==
    /\ Terminated =>
          /\ HasSeedType
          /\ FlagType(cliCall.args) \notin {"", "all"}
          /\ ~IsSeederRegistered(FlagType(cliCall.args))
          /\ exitCode = ExitStatus
    /\ IsRegistryError(ret) => ~Terminated /\ exitCode = 0
    /\ (HasSeedType /\ pc = "idle" /\ IsRegistryError(ret)) => cliRet = ret

\* The state of the dispatcher's state machine that a state of the program
\* stands for.  "Aborted" is a call of Run that never read a -type value.
DispatcherState ==
    IF cliCall.op # "Run" THEN "Idle"
    ELSE IF ~HasSeedType THEN "Aborted"
    ELSE IF pc = "exited" THEN "Rejected"
    ELSE IF pc = "action"
    THEN (IF call.op = "RunAllSeeders" THEN "RunningAll" ELSE "RunningOne")
    ELSE IF call.op = "GetRegisteredSeeders" THEN "ShowedUsage"
    ELSE IF cliRet = Nil THEN "Done"
    ELSE "Failed"

\* The steps the state machine of the dispatcher allows.
RunTransitions ==
    [][ LET seedType == FlagType(cliCall'.args)
            from == DispatcherState
            to == DispatcherState'
        IN /\ ReadsSeedType =>
                 /\ from = "Idle"
                 /\ to = CASE seedType = "" -> "ShowedUsage"
                           [] seedType = "all" ->
                                  IF seeders = <<>> THEN "Done"
                                  ELSE "RunningAll"
                           [] seedType \notin {"", "all"}
                                  /\ IsSeederRegistered(seedType) ->
                                  "RunningOne"
                           [] OTHER -> "Rejected"
           /\ from = "RunningAll" => to \in {"RunningAll", "Done", "Failed"}
           /\ from = "RunningOne" => to \in {"Done", "Failed"}
           /\ (to \in {"Done", "Failed"} /\ ~ReadsSeedType) =>
                 from \in {"RunningAll", "RunningOne"}
           /\ to \in {"RunningAll", "RunningOne"} =>
                 ReadsSeedType \/ from = "RunningAll"
           /\ to \in {"Done", "Failed"} =>
                 /\ to = "Failed" <=> IsRegistryError(ret')
                 /\ cliRet' = ret'
           /\ to \in {"ShowedUsage", "Rejected"} => ReadsSeedType
           /\ from \in {"ShowedUsage", "Done", "Failed"} =>
                 to \in {"Idle", "Aborted"}
           /\ from = "Rejected" => UNCHANGED vars
      ]_vars

\* C22: a call of Run that has read the value of -type follows the state
\* machine.  From Idle it goes to the state its value and the registry
\* choose: ShowedUsage for the empty value, RunningAll for "all" (Done at
\* once when nothing is registered), RunningOne for any other registered
\* name, Rejected for any other value.  RunningAll goes on to RunningAll,
\* Done or Failed, RunningOne to Done or Failed; Done and Failed are
\* entered from RunningAll or RunningOne only; the call is Failed iff the
\* manager's run returned an error, and Run returns that error; a call
\* that is ShowedUsage, Done or Failed stays so until the program's next
\* call, and nothing follows Rejected.  When every seeder function that is
\* called returns, a call in RunningAll or RunningOne reaches Done or
\* Failed.
C22_RunFollowsStateMachine ==
    /\ RunTransitions
    /\ DispatcherState \in {"RunningAll", "RunningOne"}
           ~> DispatcherState \in {"Done", "Failed"}

\* Run with -type=all is in RunningAll for the second time, the first of
\* three seeder functions having returned.
C22_Witness ==
    /\ DispatcherState = "RunningAll"
    /\ Len(seeders) = 3
    /\ Len(executionLog) = 2

IsEntryLine(l) == l.line = "entry"

\* The positions of the numbered entries in the lines logged.
EntryPositions(lines) == {k \in 1..Len(lines) : IsEntryLine(lines[k])}

\* C23: Usage never fails and enters no seeder function: it returns with
\* the process running and the registry as it was.  On an empty registry it
\* logs the no-seeders line once and no numbered entry; otherwise it does
\* not log that line, it logs as many numbered entries as
\* GetRegisteredSeeders has names, and the i-th entry has the number i and
\* the i-th registered name and is followed by the command line of the
\* application for that name.
C23_UsageListsRegisteredNames ==
    [][ IsUsageStep =>
          LET names == GetRegisteredSeeders
              entries == SelectSeq(output', IsEntryLine)
              none == {k \in 1..Len(output') :
                          output'[k].line = "no seeders registered"}
          IN /\ pc' = "idle" /\ cliRet' = Nil /\ exitCode' = 0
             /\ executionLog' = <<>> /\ active' = <<>>
             /\ seeders' = seeders /\ seederMap' = seederMap
             /\ Len(entries) = Len(names)
             /\ names = <<>> => Cardinality(none) = 1
             /\ names # <<>> => none = {}
             /\ \A i \in 1..Len(names) :
                    entries[i] = [line |-> "entry", n |-> i, name |-> names[i]]
             /\ \A k \in EntryPositions(output') :
                    /\ k < Len(output')
                    /\ output'[k + 1] =
                           [line |-> "command", app |-> appName,
                            type |-> output'[k].name]
      ]_vars

\* Usage of a CLI with a custom application name has listed three
\* registered names.
C23_Witness ==
    /\ cliCall.op = "Usage"
    /\ Len(seeders) = 3
    /\ Cardinality(EntryPositions(output)) = 3
    /\ appName = "myapp"

\* Every name the callers of either specification use.
AllNames == Names \cup CLINames \cup OrderNames

\* The name n is seen by the manager's operations and by the CLI: it is in
\* the list of names, it is registered, RunSeederByName finds its function,
\* the loop of RunAllSeeders has an iteration for it, Usage has an entry
\* for it, and Run does not take it for an unknown value.
Visible(n) ==
    /\ \E k \in 1..Len(GetRegisteredSeeders) : GetRegisteredSeeders[k] = n
    /\ IsSeederRegistered(n)
    /\ RunSeederByNameAt(seederMap, n, 1).go
    /\ RunSeederByNameAt(seederMap, n, 1).item.Name = n
    /\ \E k \in 1..Len(seeders) :
           /\ RunAllSeedersAt(seeders, k).go
           /\ RunAllSeedersAt(seeders, k).item.Name = n
    /\ LET usage == UsageLines(appName, CLIGetRegisteredSeeders)
       IN \E k \in 1..(Len(usage) - 1) :
              /\ IsEntryLine(usage[k]) /\ usage[k].name = n
              /\ usage[k + 1] = [line |-> "command", app |-> appName, type |-> n]
    /\ Dispatch(n, CLIIsSeederRegistered(n)) \in {"one", "all"}

\* C24: a name is seen by every operation from the step on in which its
\* registration succeeds, also by the CLI that was made before the
\* registration: the step that registers a name makes it registered, a
\* registered name stays registered, every registered name is visible, a
\* Usage call lists every registered name, and a call of Run with -type set
\* to a registered name other than "all" enters the function of that name.
C24_RegisteredIsVisibleAtOnce ==
    /\ [](\A n \in AllNames : IsSeederRegistered(n) => Visible(n))
    /\ [][ /\ \A n \in AllNames :
                   /\ RegistersNow(n) => IsSeederRegistered(n)'
                   /\ IsSeederRegistered(n) => IsSeederRegistered(n)'
            /\ IsUsageStep =>
                   \A k \in 1..Len(seeders) :
                       \E j \in EntryPositions(output') :
                           output'[j].name = seeders[k].Name
            /\ (ReadsSeedType /\ FlagType(cliCall'.args) # "all"
                   /\ IsSeederRegistered(FlagType(cliCall'.args))) =>
                   /\ pc' = "action"
                   /\ NamesOf(active') = <<FlagType(cliCall'.args)>>
                   /\ NamesOf(executionLog') = <<FlagType(cliCall'.args)>>
          ]_vars

\* Run with -type=b has entered the function of "b", which was registered
\* as the third name after the CLI was made.
C24_Witness ==
    /\ HasSeedType
    /\ FlagType(cliCall.args) = "b"
    /\ pc = "action"
    /\ Len(seeders) = 3
    /\ seeders[3].Name = "b"
    /\ NamesOf(executionLog) = <<"b">>

\* The step is the caller's assignment to an element of the slice it holds:
\* no call of the manager, the same slice, other contents.
IsModifyNamesStep ==
    /\ held # 0 /\ held' = held
    /\ call' = call /\ ret' = ret
    /\ heap'[held] # heap[held]

\* The step is a call of GetRegisteredSeeders.
IsGetRegisteredSeedersStep ==
    pc = "idle" /\ call'.op = "GetRegisteredSeeders" /\ ~IsModifyNamesStep

\* C25: the slice GetRegisteredSeeders returns is a snapshot: while the
\* caller holds it, no step but the caller's own assignment changes it, so
\* no later RegisterSeeder, RegisterSeeders or GetRegisteredSeeders does;
\* an assignment to it changes neither the sequence of seeders nor the map
\* nor the list of names; and every call of GetRegisteredSeeders returns
\* the names of the registered seeders in order, whatever was assigned to
\* slices returned before.
C25_ListIsSnapshot ==
    [][ /\ (held # 0 /\ held' = held /\ ~IsModifyNamesStep) =>
               heap'[held] = heap[held]
        /\ IsModifyNamesStep =>
               /\ seeders' = seeders
               /\ seederMap' = seederMap
               /\ GetRegisteredSeeders' = GetRegisteredSeeders
        /\ IsGetRegisteredSeedersStep =>
               /\ ret' = NamesValue(NamesOf(seeders))
               /\ held' # held => heap'[held'] = NamesOf(seeders)
               /\ seeders' = seeders /\ seederMap' = seederMap
      ]_vars

\* The caller holds the slice it got when one name was registered and has
\* assigned to its element; a second name was registered since, and a later
\* call of GetRegisteredSeeders has returned both names.
C25_Witness ==
    /\ held # 0
    /\ heap[held] = <<"z">>
    /\ call.op = "GetRegisteredSeeders"
    /\ ret = NamesValue(GetRegisteredSeeders)
    /\ Len(seeders) = 2

\* C26: execution is sequential and nothing is retried: at most one seeder
\* function is in progress at any moment, and one is in progress exactly
\* while a run operation has not returned; a function that failed is the
\* last one its operation enters; RunSeederByName enters one function at
\* most, and RunAllSeeders enters the function of each seeder at most once.
C26_SequentialNoRetry ==
    /\ Len(active) <= 1
    /\ pc = "action" <=> Len(active) = 1
    /\ pc = "action" => active[1] = executionLog[Len(executionLog)]
    /\ \A k \in 1..(Len(executionLog) - 1) :
           ~Fails(executionLog[k].Function)
    /\ (pc = "idle" /\ executionLog # <<>>
           /\ Fails(executionLog[Len(executionLog)].Function)) =>
           IsRegistryError(ret)
    /\ call.op = "RunSeederByName" => Len(executionLog) <= 1
    /\ call.op = "RunAllSeeders" =>
           \A j, k \in 1..Len(executionLog) :
               executionLog[j].Name = executionLog[k].Name => j = k

\* RunAllSeeders has returned the failure of the first of three seeders and
\* has entered no other function.
C26_Witness ==
    /\ call.op = "RunAllSeeders"
    /\ pc = "idle"
    /\ Len(seeders) = 3
    /\ Len(executionLog) = 1
    /\ ret.kind = "ExecutionFailed"
    /\ active = <<>>

\* The most functions a run operation may enter: one, the length of its
\* argument, or the number of registered seeders.
MostInvocations ==
    CASE call.op = "RunSeederByName" -> 1
      [] call.op = "RunSeedersInOrder" -> Len(call.arg)
      [] call.op = "RunAllSeeders" -> Len(seeders)
      [] OTHER -> 0

\* C27: when every seeder function that is called returns, every run
\* operation returns, and it has entered at most one function
\* (RunSeederByName), as many as its argument has names (RunSeedersInOrder),
\* or as many as seeders are registered (RunAllSeeders).  While a function
\* is in progress the only step is the return of that function: until it
\* returns, the operation does not return and enters no other function.
C27_RunsTerminate ==
    /\ [](Len(executionLog) <= MostInvocations)
    /\ [][pc = "action" =>
             /\ FunctionReturns
             /\ Len(active') <= Len(active)
             /\ pc' = "action" =>
                    Len(executionLog') = Len(executionLog) + 1]_vars
    /\ pc = "action" ~> pc = "idle"

\* RunSeedersInOrder has returned nil after entering three functions, one
\* for each name of its argument.
C27_Witness ==
    /\ call.op = "RunSeedersInOrder"
    /\ pc = "idle"
    /\ ret = Nil
    /\ Len(call.arg) = 3
    /\ Len(executionLog) = 3

\* What a plan of Run says apart from the lines logged.
Control(plan) ==
    [branch |-> plan.branch, seedType |-> plan.seedType, flags |-> plan.flags]

\* The lines of a log that are not part of the usage text.
RECURSIVE NotHelpText(_)
NotHelpText(lines) ==
    IF lines = <<>> THEN <<>>
    ELSE IF Head(lines).line \in {"starting", "unknown", "available"}
    THEN <<Head(lines)>> \o NotHelpText(Tail(lines))
    ELSE NotHelpText(Tail(lines))

\* What a step of Run shows apart from the lines logged: the manager's
\* call, its result and the functions it has entered, what Run returns,
\* whether the process goes on, and its exit status.
RunShows(plan) ==
    /\ flagSet' = plan.flags
    /\ CASE plan.branch = "panic" ->
               pc' = "panicked" /\ exitCode' = PanicExitStatus
                   /\ call' = NoCall
          [] plan.branch = "parse" ->
               pc' = "exited" /\ exitCode' = ParseExitStatus
                   /\ call' = NoCall
          [] plan.branch = "exit" ->
               pc' = "exited" /\ exitCode' = ExitStatus
                   /\ executionLog' = <<>>
          [] plan.branch = "usage" ->
               pc' = "idle" /\ exitCode' = exitCode /\ cliRet' = Nil
                   /\ executionLog' = <<>>
          [] plan.branch = "all" ->
               /\ call' = [op |-> "RunAllSeeders", arg |-> <<>>]
               /\ exitCode' = exitCode
               /\ pc' \in {"idle", "action"}
               /\ LET whole == RunAllSeedersOutcome(seeders)
                  IN /\ Len(executionLog') <= Len(whole.log)
                     /\ \A k \in 1..Len(executionLog') :
                            executionLog'[k] = whole.log[k]
          [] plan.branch = "one" ->
               /\ call' = [op |-> "RunSeederByName", arg |-> plan.seedType]
               /\ exitCode' = exitCode
               /\ pc' = "action"
               /\ NamesOf(executionLog') = <<plan.seedType>>

\* C28: the application name of a CLI shows in the usage text only.  In
\* every state where Run can be called, for every command line, Run of a CLI named "seeder",
\* "myapp" or "" on this manager takes the same branch with the same value
\* of -type, and logs the same lines apart from the usage text; and every
\* step of Run shows what the plan of each of these CLIs says: the same
\* manager call and functions entered, the same result, the same exit
\* status or none.  The steps after it, the returns of the seeder
\* functions, leave the application name and the lines logged alone.
C28_AppNameOnlyInUsageText ==
    /\ [](pc = "idle" =>
             \A args \in CLIArgs : \A app \in AppNames \ {"seeder"} :
                 /\ Control(RunPlan(app, args))
                        = Control(RunPlan("seeder", args))
                 /\ NotHelpText(RunPlan(app, args).output)
                        = NotHelpText(RunPlan("seeder", args).output))
    /\ [][ /\ IsRunStep =>
                 \A app \in AppNames : RunShows(RunPlan(app, cliCall'.args))
           /\ pc = "action" => output' = output
           /\ (pc = "action" /\ cliCall.op = "Run") =>
                 cliRet' = IF pc' = "idle" THEN ret' ELSE Pending
           /\ appName' = appName ]_vars

\* Run of a CLI whose application name is empty has run the seeder "a" and
\* returned nil.
C28_Witness ==
    /\ appName = ""
    /\ cliCall.op = "Run"
    /\ call = [op |-> "RunSeederByName", arg |-> "a"]
    /\ pc = "idle"
    /\ cliRet = Nil
    /\ NamesOf(executionLog) = <<"a">>

IsIsSeederRegisteredStep == pc = "idle" /\ call'.op = "IsSeederRegistered"

\* name is, character for character, the name of a registered seeder.
ExactlyRegistered(name) == \E k \in 1..Len(seeders) : seeders[k].Name = name

\* The registered seeder whose name is exactly name.
ExactItem(name) ==
    seeders[CHOOSE k \in 1..Len(seeders) : seeders[k].Name = name]

\* C29: names are compared as exact strings.  RegisterSeeder accepts every
\* name that is not the empty string and is not, character for character,
\* a registered name, whatever variants of it in letter case or in leading
\* or trailing whitespace are registered, a name of whitespace only
\* included; IsSeederRegistered answers whether exactly this name is
\* registered; RunSeederByName and Run with -type=<name> enter the function
\* registered under exactly this name, and answer "not found" / end the
\* process when only variants of it are registered.
C29_NamesAreExactStrings ==
    [][ /\ IsRegisterSeederStep =>
              LET name == call'.arg.Name
              IN IF name = "" THEN ret' = InvalidName
                 ELSE IF ExactlyRegistered(name)
                 THEN ret' = DuplicateName(name) /\ seeders' = seeders
                 ELSE ret' = Nil /\ seeders' = Append(seeders, call'.arg)
        /\ IsIsSeederRegisteredStep =>
              ret' = BoolValue(ExactlyRegistered(call'.arg))
        /\ IsRunSeederByNameStep =>
              LET name == call'.arg
              IN IF ExactlyRegistered(name)
                 THEN pc' = "action" /\ executionLog' = <<ExactItem(name)>>
                 ELSE pc' = "idle" /\ executionLog' = <<>>
                         /\ ret' = NotFound(name)
        /\ (ReadsSeedType /\ FlagType(cliCall'.args) \notin {"", "all"}) =>
              LET name == FlagType(cliCall'.args)
              IN IF ExactlyRegistered(name)
                 THEN /\ call' = [op |-> "RunSeederByName", arg |-> name]
                      /\ executionLog' = <<ExactItem(name)>>
                 ELSE pc' = "exited" /\ exitCode' = ExitStatus
                         /\ executionLog' = <<>> ]_vars

\* The four variants are all registered, "A" with another function than
\* "a", and RunSeederByName("A") has entered the function of "A".
C29_Witness ==
    /\ DOMAIN seederMap = Variants
    /\ seederMap["a"] = "seedOk"
    /\ call = [op |-> "RunSeederByName", arg |-> "A"]
    /\ executionLog = <<SeederItem("A", "seedFail")>>

\* C30: the manager keeps no history of runs.  Whatever was run before and
\* however it ended, RunSeederByName of a registered name enters its
\* function, RunSeedersInOrder enters the function of its first name and
\* RunAllSeeders that of the first seeder; when a function has returned
\* nil, RunSeedersInOrder enters the function of its next name whether or
\* not this run or an earlier one has entered it already.  A returned
\* RunSeedersInOrder has entered the functions of a prefix of its argument,
\* name by name, and of the whole argument when it returns nil: a name
\* that occurs k times has been entered k times.
C30_NoRunHistory ==
    /\ []((pc = "idle" /\ call.op = "RunSeedersInOrder") =>
             /\ IsPrefix(NamesOf(executionLog), call.arg)
             /\ \A k \in 1..Len(executionLog) :
                    executionLog[k] = ExactItem(call.arg[k])
             /\ ret = Nil => NamesOf(executionLog) = call.arg)
    /\ [][ /\ (IsRunSeederByNameStep /\ ExactlyRegistered(call'.arg)) =>
                 pc' = "action" /\ executionLog' = <<ExactItem(call'.arg)>>
           /\ (IsRunSeedersInOrderStep /\ call'.arg # <<>>
                   /\ ExactlyRegistered(call'.arg[1])) =>
                 pc' = "action" /\ executionLog' = <<ExactItem(call'.arg[1])>>
           /\ (IsRunAllSeedersStep /\ seeders # <<>>) =>
                 pc' = "action" /\ executionLog' = <<seeders[1]>>
           /\ (pc = "action" /\ call.op = "RunSeedersInOrder"
                   /\ ~Fails(Current.Function)
                   /\ Len(executionLog) < Len(call.arg)
                   /\ ExactlyRegistered(call.arg[Len(executionLog) + 1])) =>
                 /\ pc' = "action"
                 /\ executionLog' =
                        Append(executionLog,
                               ExactItem(call.arg[Len(executionLog) + 1])) ]_vars

\* RunSeedersInOrder(<<"a", "b", "a">>) has returned nil after entering
\* the function of "a" twice.
C30_Witness ==
    /\ call = [op |-> "RunSeedersInOrder", arg |-> <<"a", "b", "a">>]
    /\ pc = "idle"
    /\ ret = Nil
    /\ NamesOf(executionLog) = <<"a", "b", "a">>

\* The function entered k-th during the call has returned nil.
Succeeded(k) ==
    /\ ~Fails(executionLog[k].Function)
    /\ k < Len(executionLog) \/ pc = "idle"

\* The lines about the functions entered during the call, from the k-th
\* on: for each a start line, and after it a completion line if the
\* function has returned nil.
RECURSIVE TaskLines(_)
TaskLines(k) ==
    IF k > Len(executionLog)
    THEN <<>>
    ELSE <<RunningLine(executionLog[k].Name)>>
         \o (IF Succeeded(k)
             THEN <<CompletedLine(executionLog[k].Name)>>
             ELSE <<>>)
         \o TaskLines(k + 1)

IsRunCall == call.op \in {"RunSeederByName", "RunSeedersInOrder", "RunAllSeeders"}

\* C31: the status lines follow the outcomes.  RegisterSeeder logs its
\* confirmation if and only if it returns nil, and RegisterSeeders one
\* confirmation for each item it has appended.  During and after a run the
\* log holds, for each function entered, a start line that is there while
\* the function is in progress, followed by a completion line if and only
\* if the function has returned nil; RunAllSeeders logs its first line
\* before these and its last line if and only if it has returned nil; a
\* run that returns "not found" without entering a function logs no start
\* and no completion line.  Writing the lines changes no result: the
\* registry, the functions entered and the value returned are those of the
\* operations, which never read the log.
C31_StatusLinesFollowOutcomes ==
    /\ [](IsRunCall =>
             logged = (IF call.op = "RunAllSeeders"
                       THEN <<RunningAllLine>> ELSE <<>>)
                      \o TaskLines(1)
                      \o (IF call.op = "RunAllSeeders" /\ pc = "idle"
                             /\ ret = Nil
                          THEN <<AllCompletedLine>> ELSE <<>>))
    /\ []((call.op = "RunSeederByName" /\ ret.kind = "NotFound") =>
             logged = <<>>)
    /\ [][ /\ IsRegisterSeederStep =>
                 /\ ret' = Nil <=> logged' = <<RegisteredLine(call'.arg.Name)>>
                 /\ ret' # Nil <=> logged' = <<>>
           /\ IsRegisterSeedersStep =>
                 /\ IsPrefix(seeders, seeders')
                 /\ logged' = [k \in 1..(Len(seeders') - Len(seeders)) |->
                                  RegisteredLine(seeders'[Len(seeders) + k].Name)]
           /\ (IsRunSeederByNameStep \/ IsRunSeedersInOrderStep
                   \/ IsRunAllSeedersStep \/ pc = "action") =>
                 /\ LET whole ==
                            IF call'.op = "RunAllSeeders"
                            THEN RunAllSeedersOutcome(seeders')
                            ELSE IF call'.op = "RunSeedersInOrder"
                            THEN RunSeedersInOrderOutcome(seederMap', call'.arg)
                            ELSE RunSeedersInOrderOutcome(seederMap',
                                                          <<call'.arg>>)
                    IN /\ IsPrefix(executionLog', whole.log)
                       /\ pc' = "idle" =>
                              /\ executionLog' = whole.log
                              /\ ret' = whole.ret
                 /\ seeders' = seeders /\ seederMap' = seederMap
                 /\ pc' = "action" =>
                        logged'[Len(logged')] = RunningLine(Entered.Name) ]_vars

\* RunAllSeeders has returned the error of the second of two seeders: the
\* log holds its first line, the start and the completion of the first
\* seeder and the start of the second, and no more.
C31_Witness ==
    /\ call.op = "RunAllSeeders"
    /\ pc = "idle"
    /\ ret.kind = "ExecutionFailed"
    /\ Len(executionLog) = 2
    /\ logged = <<RunningAllLine,
                  RunningLine(executionLog[1].Name),
                  CompletedLine(executionLog[1].Name),
                  RunningLine(executionLog[2].Name)>>

\* C32: the map and the sequence hold the same function for every
\* registered name, in every reachable state.  So RunSeederByName, which
\* takes the function from the map, and RunAllSeeders, which takes it from
\* the sequence, enter the same function for a name: what RunSeederByName
\* has entered is the item of the sequence with that name, and what
\* RunAllSeeders has entered are the items of the sequence, each with the
\* function the map holds for its name.
C32_MapHoldsSequenceFunctions ==
    /\ \A k \in 1..Len(seeders) :
           /\ seeders[k].Name \in DOMAIN seederMap
           /\ seederMap[seeders[k].Name] = seeders[k].Function
    /\ (call.op = "RunSeederByName" /\ executionLog # <<>>) =>
           /\ executionLog[1].Name = call.arg
           /\ \E k \in 1..Len(seeders) : seeders[k] = executionLog[1]
    /\ call.op = "RunAllSeeders" =>
           \A j \in 1..Len(executionLog) :
               /\ executionLog[j] = seeders[j]
               /\ executionLog[j].Function = seederMap[executionLog[j].Name]

\* Of two registered seeders the second is "a" with the failing function,
\* and RunSeederByName("a") has entered that function and returned.
C32_Witness ==
    /\ call = [op |-> "RunSeederByName", arg |-> "a"]
    /\ pc = "idle"
    /\ Len(seeders) = 2
    /\ seeders[2] = SeederItem("a", "seedFail")
    /\ executionLog = <<seeders[2]>>

\* C33: Run can be called again in the same process.  Every call of Run,
\* the second and the later ones too, goes on past the definition of the
\* -type flag without a panic and, when the command line has only flags
\* that Run defines, takes the branch that the value of -type selects:
\* the usage text, RunAllSeeders, RunSeederByName, or the exit for an
\* unknown value.
C33_RunIsRepeatable ==
    [][ IsRunStep =>
          /\ pc' # "panicked"
          /\ ~ParseError({"type"}, cliCall'.args) =>
                LET seedType == FlagType(cliCall'.args)
                    branch == Dispatch(seedType, IsSeederRegistered(seedType))
                IN CASE branch = "usage" ->
                          pc' = "idle" /\ cliRet' = Nil
                             /\ call'.op = "GetRegisteredSeeders"
                     [] branch = "all" -> call'.op = "RunAllSeeders"
                     [] branch = "one" ->
                          call' = [op |-> "RunSeederByName", arg |-> seedType]
                     [] branch = "exit" ->
                          pc' = "exited" /\ exitCode' = ExitStatus ]_vars

\* The step is a registration made by the seeder function in progress.
IsFunctionRegistersStep ==
    pc = "action" /\ pc' = "action" /\ executionLog' = executionLog

\* C34: a seeder function that registers a seeder while RunAllSeeders runs
\* it does not change what that call runs.  RunAllSeeders ranges over the
\* seeders registered when it was called: while it runs, the functions
\* entered are the first ones of that sequence, which stays a prefix of
\* the registered seeders; a registration made by the function in progress
\* appends its item and changes nothing of the run; the call enters no
\* more functions than were registered when it began; and the next call
\* of RunAllSeeders ranges over all that is registered by then.
\* RunSeedersInOrder looks each name up when its turn comes: after a
\* function has returned nil, the next name is entered if it is registered
\* now, whether it was so when the call began or not.
C34_RegistrationDuringRun ==
    /\ []((call.op = "RunAllSeeders" /\ pc = "action") =>
             /\ IsPrefix(rng, seeders)
             /\ executionLog = SubSeq(rng, 1, idx))
    /\ []((call.op = "RunAllSeeders" /\ pc = "idle") =>
             /\ IsPrefix(executionLog, seeders)
             /\ ret = Nil \/ ret.kind = "ExecutionFailed")
    /\ [][ /\ IsRunAllSeedersStep =>
                 /\ pc' = "action" => rng' = seeders
                 /\ pc' = "idle" => seeders = <<>>
           /\ (pc = "action" /\ call.op = "RunAllSeeders") =>
                 /\ pc' = "action" => rng' = rng
                 /\ Len(executionLog') <= Len(rng)
                 /\ (pc' = "idle" /\ ret' = Nil) => executionLog' = rng
           /\ IsFunctionRegistersStep =>
                 /\ IsPrefix(seeders, seeders')
                 /\ Len(seeders') <= Len(seeders) + 1
                 /\ <<call', rng', idx', active', ret'>>
                        = <<call, rng, idx, active, ret>>
           /\ (pc = "action" /\ call.op = "RunSeedersInOrder"
                   /\ ~IsFunctionRegistersStep
                   /\ ~Fails(Current.Function)
                   /\ idx < Len(call.arg)
                   /\ ExactlyRegistered(call.arg[idx + 1])) =>
                 /\ pc' = "action"
                 /\ Entered = ExactItem(call.arg[idx + 1]) ]_vars

\* RunAllSeeders has returned nil after entering the function of the one
\* seeder that was registered when it began; that function has registered
\* two more, which were not entered.
C34_Witness ==
    /\ call.op = "RunAllSeeders"
    /\ pc = "idle"
    /\ ret = Nil
    /\ Len(executionLog) = 1
    /\ executionLog[1].Function = "seedAdds"
    /\ Len(seeders) = 3

\* C35: RegisterSeeder validates the name only.  For a name that is not
\* empty and not registered it returns nil and stores the function it is
\* given, nil included, in the sequence and in the map.  A run that comes
\* to a seeder whose function is nil finds it, logs its start line and
\* calls it: the call panics.  The run method returns nothing, neither
\* "not found" nor an execution failure, no function is entered after it,
\* and RunAllSeeders has run only the seeders before it.
C35_NilFunctionIsStoredAndPanics ==
    /\ []((pc # "idle" /\ active # <<>> /\ Current.Function = NilFunction) =>
             /\ ret = Pending
             /\ executionLog[Len(executionLog)] = Current
             /\ logged[Len(logged)] = RunningLine(Current.Name)
             /\ call.op = "RunAllSeeders" =>
                    /\ executionLog = SubSeq(seeders, 1, Len(executionLog))
                    /\ \A k \in 1..(Len(executionLog) - 1) :
                           executionLog[k].Function # NilFunction)
    /\ [](pc = "panicked" =>
             active # <<>> /\ Current.Function = NilFunction)
    /\ [][ /\ IsRegisterSeederStep =>
                 LET name == call'.arg.Name
                 IN IF name = "" THEN ret' = InvalidName
                    ELSE IF ExactlyRegistered(name)
                    THEN ret' = DuplicateName(name)
                    ELSE /\ ret' = Nil
                         /\ seeders' = Append(seeders, call'.arg)
                         /\ seederMap'[name] = call'.arg.Function
           /\ (pc = "action" /\ Current.Function = NilFunction) =>
                 /\ pc' = "panicked"
                 /\ executionLog' = executionLog
                 /\ ret' = Pending
           /\ pc = "panicked" => UNCHANGED vars ]_vars

\* RunAllSeeders over three seeders has run the first and panicked in the
\* call of the second, whose function is nil.
C35_Witness ==
    /\ pc = "panicked"
    /\ call.op = "RunAllSeeders"
    /\ Len(seeders) = 3
    /\ Len(executionLog) = 2
    /\ seeders[2].Function = NilFunction
    /\ ret = Pending

\* The double holds the items of the manager, in its sequence and in its
\* map.
SameItems == tsm.seeders = seeders /\ tsm.seederMap = seederMap

\* A step in which the caller makes a call of one of the operations ops on
\* the double and on the manager.
IsCallOnBoth(ops) == pc = "idle" /\ call'.op \in ops

\* C36: the test double with its error behaviour off simulates the
\* manager.  The two begin with the same items (none); a call made on
\* both while they hold the same items and the error behaviour is off
\* leaves them with the same items, hence the same ordered names on every
\* sequence of such calls; the queries answer the same; a registration
\* returns an error in one exactly when it does in the other; and once a
\* run method of the manager has returned, the double has entered the same
\* functions in the same order and returned an error exactly when the
\* manager did.  With the error behaviour on, RegisterSeeder and
\* RunSeederByName of the double return an error, leave the double as it
\* was and enter no function.
C36_DoubleSimulatesManager ==
    /\ SameItems
    /\ [][ /\ (SameItems /\ ~tsm.shouldError) =>
                 /\ SameItems'
                 /\ TestGetRegisteredSeedersOn(tsm') = GetRegisteredSeeders'
           /\ (SameItems /\ ~tsm.shouldError
                 /\ IsCallOnBoth({"RegisterSeeder", "RegisterSeeders"})) =>
                 (tsmRet' = Nil <=> ret' = Nil)
           /\ (SameItems /\ ~tsm.shouldError
                 /\ IsCallOnBoth({"GetRegisteredSeeders",
                                  "IsSeederRegistered"})) =>
                 tsmRet' = ret'
           /\ (tsm.shouldError
                 /\ IsCallOnBoth({"RegisterSeeder", "RunSeederByName"})) =>
                 /\ tsmRet'.kind = "TestError"
                 /\ tsm' = tsm
                 /\ tsmLog' = <<>> ]_vars
    /\ []((pc = "idle" /\ IsRunCall /\ SameItems /\ ~tsm.shouldError) =>
             /\ tsmLog = executionLog
             /\ tsmRet = Nil <=> ret = Nil)

\* RunAllSeeders on a manager and a double that hold the same two items,
\* the error behaviour off: both entered the two functions and both
\* returned an error.
C36_Witness ==
    /\ pc = "idle"
    /\ call.op = "RunAllSeeders"
    /\ ~tsm.shouldError
    /\ SameItems
    /\ Len(seeders) = 2
    /\ Len(executionLog) = 2
    /\ tsmLog = executionLog
    /\ ret # Nil
    /\ tsmRet.kind = "TestError"

====
